---- MODULE Spec2Model ----
(***************************************************************************)
(* Classroom quiz/gradebook application: the assignment-scoring paths      *)
(* (API submit, web take_assignment, the streamlined variant's submit)     *)
(* and the persistence around them, modelled from src/app.py and           *)
(* src/app_full_bloated.py.                                                *)
(*                                                                         *)
(* Text is modelled as a sequence of one-character strings, so that        *)
(* str.lower, str.strip and str.split are computed and not assumed.        *)
(***************************************************************************)
EXTENDS Integers, Sequences, FiniteSets, TLC

VARIABLES
    app_settings,   \* table app_settings: key -> value (a partial function)
    students,       \* table students: id -> [email, total_points]
    classes,        \* table classes: id -> [is_archived]
    assignments,    \* table assignments (+ questions, correct_answers): id -> record
    submissions,    \* table assignment_submissions, in row order
    s_submissions,  \* the streamlined variant's own assignment_submissions table
    response,       \* what the last handler returned to its caller
    reqs,           \* in-flight API submit requests (interleaved execution only)
    enrollments     \* table enrollments: id -> [student_id, class_id]

vars == <<app_settings, students, classes, assignments, submissions,
          s_submissions, response, reqs, enrollments>>

db_vars == <<app_settings, students, classes, assignments, submissions>>

(***************************************************************************)
(* Bounds of the model.                                                    *)
(***************************************************************************)
MaxAnsLen == 3        \* longest submitted answer string
MaxAccepted == 2      \* most accepted answers stored for one question
MaxPoints == 2        \* largest point value of a question
PointsCap == 4        \* no submit is tried for a student above this total
MaxRequests == 2      \* most API submit requests in flight at once
MaxRows == 3          \* most submission rows a leaderboard is computed from

(***************************************************************************)
(* Text.                                                                   *)
(***************************************************************************)
Alphabet == {"a", "A", " ", "|"}

Whitespace == {" "}

\* All strings over Alphabet of length at most n.
RECURSIVE StringsUpTo(_)
StringsUpTo(n) ==
    IF n = 0 THEN {<<>>}
    ELSE LET shorter == StringsUpTo(n - 1)
         IN  shorter \cup {Append(s, c) : s \in shorter, c \in Alphabet}

SetMin(S) == CHOOSE x \in S : \A y \in S : x <= y
SetMax(S) == CHOOSE x \in S : \A y \in S : x >= y

\* str.lower(), one character at a time.
LowerChar(c) ==
    CASE c = "A" -> "a"
      [] c = "B" -> "b"
      [] c = "E" -> "e"
      [] c = "N" -> "n"
      [] c = "O" -> "o"
      [] c = "R" -> "r"
      [] c = "T" -> "t"
      [] c = "U" -> "u"
      [] OTHER -> c

lower(s) == [i \in DOMAIN s |-> LowerChar(s[i])]

\* Mutant of strip: only leading blanks are removed.
strip_leading(s) ==
    LET keep == {i \in DOMAIN s : s[i] \notin Whitespace}
    IN  IF keep = {} THEN <<>> ELSE SubSeq(s, SetMin(keep), Len(s))

\* str.strip(): drop leading and trailing whitespace.
strip(s) ==
    LET keep == {i \in DOMAIN s : s[i] \notin Whitespace}
    IN  IF keep = {} THEN <<>> ELSE SubSeq(s, SetMin(keep), SetMax(keep))

\* str.split(sep): always at least one part.
RECURSIVE split(_, _)
split(s, sep) ==
    LET at == {i \in DOMAIN s : s[i] = sep}
    IN  IF at = {} THEN <<s>>
        ELSE LET k == SetMin(at)
             IN  <<SubSeq(s, 1, k - 1)>> \o split(SubSeq(s, k + 1, Len(s)), sep)

RECURSIVE SumSeq(_)
SumSeq(s) == IF s = <<>> THEN 0 ELSE Head(s) + SumSeq(Tail(s))

(***************************************************************************)
(* Settings helpers.                                                       *)
(***************************************************************************)
KeyAllowMulti == "game.allow_multiple_submissions"
KeyMultiplier == "game.points_multiplier"
KeyLeaderboardSize == "game.leaderboard_size"
KeyMaintenance == "access.maintenance_mode"
KeyMaintenanceMessage == "access.maintenance_message"
KeyMobileApi == "access.enable_mobile_api"

Truthy == {<<"1">>, <<"t","r","u","e">>, <<"y","e","s">>, <<"o","n">>}

\* Mutant of to_bool: "no" is taken for true as well.
to_bool_loose(val) == lower(val) \in (Truthy \cup {<<"n","o">>})

to_bool(val) == lower(val) \in Truthy

\* get_setting with an explicit default, as every call site in the handlers has.
get_setting(key, default) ==
    IF key \in DOMAIN app_settings THEN app_settings[key] ELSE default

DigitChars == <<"0", "1", "2", "3", "4", "5", "6", "7", "8", "9">>

IsDigit(c) == \E i \in DOMAIN DigitChars : DigitChars[i] = c

DigitVal(c) == (CHOOSE i \in DOMAIN DigitChars : DigitChars[i] = c) - 1

RECURSIVE DigitsVal(_)
DigitsVal(s) ==
    IF s = <<>> THEN 0 ELSE 10 * DigitsVal(SubSeq(s, 1, Len(s) - 1)) + DigitVal(s[Len(s)])

RECURSIVE Pow10(_)
Pow10(n) == IF n = 0 THEN 1 ELSE 10 * Pow10(n - 1)

AllDigits(s) == s # <<>> /\ \A i \in DOMAIN s : IsDigit(s[i])

\* float(text) for the texts the model stores: "nan", an optionally signed
\* decimal (digits, or digits "." digits), or something float() rejects.
\* kind "num" carries the exact value num / den.
float(s) ==
    LET neg  == s # <<>> /\ s[1] = "-"
        body == IF neg THEN Tail(s) ELSE s
        dots == {i \in DOMAIN body : body[i] = "."}
        sign == IF neg THEN -1 ELSE 1
    IN  IF lower(s) = <<"n", "a", "n">> THEN [kind |-> "nan", num |-> 0, den |-> 1]
        ELSE IF AllDigits(body)
             THEN [kind |-> "num", num |-> sign * DigitsVal(body), den |-> 1]
        ELSE IF Cardinality(dots) = 1
             THEN LET k == SetMin(dots)
                      ip == SubSeq(body, 1, k - 1)
                      fp == SubSeq(body, k + 1, Len(body))
                  IN  IF AllDigits(ip) /\ AllDigits(fp)
                      THEN [kind |-> "num",
                            num |-> sign * (DigitsVal(ip) * Pow10(Len(fp)) + DigitsVal(fp)),
                            den |-> Pow10(Len(fp))]
                      ELSE [kind |-> "error", num |-> 0, den |-> 1]
        ELSE [kind |-> "error", num |-> 0, den |-> 1]

\* round(n / d) with a half rounded up.
round_half_up(n, d) == (2 * n + d) \div (2 * d)

\* round(n / d) for d > 0: Python 3 rounds a half to the even neighbour.
round(n, d) ==
    LET q == n \div d
        r == n % d
    IN  IF 2 * r < d THEN q
        ELSE IF 2 * r > d THEN q + 1
        ELSE IF q % 2 = 0 THEN q ELSE q + 1

(***************************************************************************)
(* Scoring.  A question is [id, question_type, points, correct_answers],   *)
(* correct_answers being the CorrectAnswer rows of the question in row     *)
(* order.  The verdict is "True", "False" or "None" (Python's None).       *)
(***************************************************************************)
KnownTypes == {"multiple_choice", "identification", "problem_solving",
               "enumeration", "fill_in_the_blanks", "yes_no", "essay"}

\* A type tag no branch of any scorer knows (the Question model's own
\* comment names it).
UnknownType == "short_answer"

QuestionTypes == KnownTypes \cup {UnknownType}

\* Mutant of any_equal: the comparison folds case and trims.
any_equal_loose(texts, answer) ==
    \E i \in DOMAIN texts : strip(lower(texts[i])) = strip(lower(answer))

any_equal(texts, answer) == \E i \in DOMAIN texts : texts[i] = answer

\* Mutant of any_equal_folded: the answer is split on "|" and every item of it
\* has to be accepted.
any_equal_folded_items(texts, answer) ==
    \A j \in DOMAIN split(answer, "|") :
        \E i \in DOMAIN texts :
            strip(lower(texts[i])) = strip(lower(split(answer, "|")[j]))

any_equal_folded(texts, answer) ==
    \E i \in DOMAIN texts : strip(lower(texts[i])) = strip(lower(answer))

\* Mutant of blanks_match: the parts are compared as sets, whatever the order.
blanks_match_any_order(answer, texts) ==
    LET parts == split(answer, "|")
    IN  /\ Len(parts) = Len(texts)
        /\ {lower(strip(parts[i])) : i \in DOMAIN parts}
               = {lower(strip(texts[i])) : i \in DOMAIN texts}

\* len(a) == len(c) and all(x == y for x, y in zip(a, c))
blanks_match(answer, texts) ==
    LET answer_parts  == [i \in DOMAIN split(answer, "|") |->
                             lower(strip(split(answer, "|")[i]))]
        correct_parts == [i \in DOMAIN texts |-> lower(strip(texts[i]))]
    IN  /\ Len(answer_parts) = Len(correct_parts)
        /\ \A i \in DOMAIN answer_parts : answer_parts[i] = correct_parts[i]

\* The branch chain of the API submit for one question and a non-empty answer.
api_is_correct(q, answer) ==
    LET cas == q.correct_answers
    IN  CASE q.question_type = "multiple_choice" -> any_equal(cas, answer)
          [] q.question_type \in {"identification", "problem_solving"} ->
                 cas # <<>> /\ strip(lower(answer)) = strip(lower(cas[1]))
          [] q.question_type = "fill_in_the_blanks" ->
                 cas # <<>> /\ blanks_match(answer, cas)
          [] q.question_type = "enumeration" -> any_equal_folded(cas, answer)
          [] q.question_type = "yes_no" ->
                 cas # <<>> /\ strip(answer) = strip(cas[1])
          [] OTHER -> FALSE

\* Mutant of api_score_question: a wrong answer that was at least given earns
\* one point.
api_score_question_partial(q, answers) ==
    LET answer  == IF q.id \in DOMAIN answers THEN answers[q.id] ELSE <<>>
        correct == answer # <<>> /\ api_is_correct(q, answer)
    IN  [question_id   |-> q.id,
         answer        |-> answer,
         correct       |-> IF correct THEN "True" ELSE "False",
         points_earned |-> IF correct THEN q.points
                           ELSE IF answer # <<>> THEN 1 ELSE 0,
         max_points    |-> q.points]

\* Mutant of api_score_question: the "if answer:" test is gone, so an empty
\* answer is compared like any other.
api_score_question_unguarded(q, answers) ==
    LET answer  == IF q.id \in DOMAIN answers THEN answers[q.id] ELSE <<>>
        correct == api_is_correct(q, answer)
    IN  [question_id   |-> q.id,
         answer        |-> answer,
         correct       |-> IF correct THEN "True" ELSE "False",
         points_earned |-> IF correct THEN q.points ELSE 0,
         max_points    |-> q.points]

\* One pass of the API submit's loop: answers.get(str(question.id), "").
api_score_question(q, answers) ==
    LET answer  == IF q.id \in DOMAIN answers THEN answers[q.id] ELSE <<>>
        correct == answer # <<>> /\ api_is_correct(q, answer)
    IN  [question_id   |-> q.id,
         answer        |-> answer,
         correct       |-> IF correct THEN "True" ELSE "False",
         points_earned |-> IF correct THEN q.points ELSE 0,
         max_points    |-> q.points]

api_detailed_results(questions, answers) ==
    [i \in DOMAIN questions |-> api_score_question(questions[i], answers)]

api_score(questions, answers) ==
    SumSeq([i \in DOMAIN questions |->
               api_detailed_results(questions, answers)[i].points_earned])

total_points_of(questions) ==
    SumSeq([i \in DOMAIN questions |-> questions[i].points])

\* The branch chain of the web take_assignment for one question and a
\* non-empty, already stripped answer: [correct, points].
web_verdict(q, student_answer) ==
    LET cas == q.correct_answers
        hit == [correct |-> "True", points |-> q.points]
        miss == [correct |-> "False", points |-> 0]
    IN  CASE q.question_type = "multiple_choice" ->
                 IF any_equal(cas, student_answer) THEN hit ELSE miss
          [] q.question_type = "enumeration" ->
                 IF any_equal_folded(cas, student_answer) THEN hit ELSE miss
          [] q.question_type \in {"problem_solving", "identification"} ->
                 IF cas # <<>> /\ strip(lower(student_answer)) = strip(lower(cas[1]))
                 THEN hit ELSE miss
          [] q.question_type = "fill_in_the_blanks" ->
                 IF cas # <<>> /\ blanks_match(student_answer, cas) THEN hit ELSE miss
          [] q.question_type = "essay" -> [correct |-> "None", points |-> 0]
          [] q.question_type = "yes_no" ->
                 IF cas # <<>> /\ strip(student_answer) = strip(cas[1]) THEN hit ELSE miss
          [] OTHER -> miss

\* One pass of take_assignment's loop: request.form.get(key, "").strip();
\* an unanswered question leaves no entry (answered FALSE).
web_score_question(q, form) ==
    LET student_answer == strip(IF q.id \in DOMAIN form THEN form[q.id] ELSE <<>>)
        v == web_verdict(q, student_answer)
    IN  IF student_answer = <<>>
        THEN [question_id |-> q.id, answered |-> FALSE, answer |-> student_answer,
              correct |-> "False", points_earned |-> 0, max_points |-> q.points]
        ELSE [question_id |-> q.id, answered |-> TRUE, answer |-> student_answer,
              correct |-> v.correct, points_earned |-> v.points, max_points |-> q.points]

web_detailed_results(questions, form) ==
    [i \in DOMAIN questions |-> web_score_question(questions[i], form)]

web_score(questions, form) ==
    SumSeq([i \in DOMAIN questions |->
               web_detailed_results(questions, form)[i].points_earned])

(***************************************************************************)
(* Responses.  Every handler leaves one record of the same shape.          *)
(***************************************************************************)
\* Mutant of percentage: a total of 0 is reported as 100 percent.
percentage_full_on_zero(score, possible) ==
    IF possible = 0 THEN 10000
    ELSE IF possible > 0 THEN round(score * 10000, possible) ELSE 0

\* round(score / possible * 100, 2) if possible > 0 else 0, in hundredths of a
\* percent.
percentage(score, possible) ==
    IF possible > 0 THEN round(score * 10000, possible) ELSE 0

Reply(op, aid, sid, status, detail) ==
    [op |-> op, assignment_id |-> aid, student_id |-> sid,
     status |-> status, detail |-> detail,
     score |-> 0, total_points |-> 0, percentage |-> 0,
     detailed_results |-> <<>>, answers |-> <<>>]

\* answers is the payload of the request, kept beside what was returned for it.
\* The API submit and the streamlined submit report a percentage; the web
\* take_assignment redirects and reports none (0 here).
Scored(op, aid, sid, score, total, details, answers) ==
    [op |-> op, assignment_id |-> aid, student_id |-> sid,
     status |-> 200, detail |-> "success",
     score |-> score, total_points |-> total,
     percentage |-> IF op = "take_assignment" THEN 0 ELSE percentage(score, total),
     detailed_results |-> details, answers |-> answers]

NoResponse == Reply("none", 0, 0, 0, "none")

(***************************************************************************)
(* Rows of assignment_submissions.                                         *)
(***************************************************************************)
Matching(rows, aid, sid) ==
    {i \in DOMAIN rows : rows[i].assignment_id = aid /\ rows[i].student_id = sid}

\* filter_by(...).first(): the first matching row in row order, 0 when none.
first_submission(rows, aid, sid) ==
    IF Matching(rows, aid, sid) = {} THEN 0 ELSE SetMin(Matching(rows, aid, sid))

RemoveAt(rows, k) ==
    [i \in 1..(Len(rows) - 1) |-> IF i < k THEN rows[i] ELSE rows[i + 1]]

NewSubmission(aid, sid, score, total) ==
    [assignment_id |-> aid, student_id |-> sid, score |-> score, total_points |-> total]

(***************************************************************************)
(* api_guard: maintenance mode first, then the mobile API switch.  blocked *)
(* says whether the guard raises its 503, detail is the 503's message.  A  *)
(* stored maintenance message is kept as one string.                       *)
(***************************************************************************)
\* The guard with the two tests in the other order.
api_guard_mobile_first ==
    IF ~to_bool(get_setting(KeyMobileApi, <<"t","r","u","e">>))
    THEN [blocked |-> TRUE, detail |-> "Mobile API is disabled by admin"]
    ELSE IF to_bool(get_setting(KeyMaintenance, <<"f","a","l","s","e">>))
    THEN [blocked |-> TRUE,
          detail |-> get_setting(KeyMaintenanceMessage, "We'll be back shortly.")]
    ELSE [blocked |-> FALSE, detail |-> "ok"]

api_guard ==
    IF to_bool(get_setting(KeyMaintenance, <<"f","a","l","s","e">>))
    THEN [blocked |-> TRUE,
          detail |-> get_setting(KeyMaintenanceMessage, "We'll be back shortly.")]
    ELSE IF ~to_bool(get_setting(KeyMobileApi, <<"t","r","u","e">>))
    THEN [blocked |-> TRUE, detail |-> "Mobile API is disabled by admin"]
    ELSE [blocked |-> FALSE, detail |-> "ok"]

\* The points added to student.total_points for a score:
\* float(get_setting(...)) with 1.0 on a parse error, then int(round(score * m)).
\* ok is FALSE when round() raises (a NaN multiplier).
points_award(score) ==
    LET f == float(get_setting(KeyMultiplier, <<"1", ".", "0">>))
    IN  CASE f.kind = "num"   -> [ok |-> TRUE, added |-> round(score * f.num, f.den)]
          [] f.kind = "error" -> [ok |-> TRUE, added |-> score]
          [] OTHER            -> [ok |-> FALSE, added |-> 0]

\* A nullable Integer column holds NULL or Val(n).
NULL == <<>>
Val(n) == <<n>>

\* student.total_points or 0
or_zero(v) == IF v = NULL THEN 0 ELSE v[1]

(***************************************************************************)
(* POST /submit/{assignment_id}: the whole handler, from the guard to the  *)
(* commit (or the rollback), on the tables as they are now.                *)
(* student_id 0 stands for a missing or falsy student_id.                  *)
(***************************************************************************)
\* Mutant of discard_existing: the prior row is kept.
discard_existing_keep(rows, existing) == rows

\* "if existing_submission and allow_multi: db.delete(...); db.flush()"
discard_existing(rows, existing) ==
    IF existing # 0 THEN RemoveAt(rows, existing) ELSE rows

\* Mutant of new_total: the award replaces the running total.
new_total_replace(old, added) == Val(added)

\* The total kept as the better of the old total and the new award.
new_total_keep_best(old, added) ==
    Val(IF or_zero(old) >= added THEN or_zero(old) ELSE added)

\* student.total_points = (student.total_points or 0) + added
new_total(old, added) == Val(or_zero(old) + added)

submit_assignment_from_game(aid, sid, answers) ==
    LET unchanged(status, detail) ==
            [submissions |-> submissions, students |-> students,
             response |-> Reply("api_submit", aid, sid, status, detail)]
        existing   == first_submission(submissions, aid, sid)
        allow_multi == to_bool(get_setting(KeyAllowMulti, <<"f","a","l","s","e">>))
    IN  IF api_guard.blocked THEN unchanged(503, api_guard.detail)
        ELSE IF sid = 0 THEN unchanged(400, "Student ID is required")
        ELSE IF aid \notin DOMAIN assignments THEN unchanged(404, "Assignment not found")
        ELSE IF assignments[aid].is_archived \/ classes[assignments[aid].class_id].is_archived
             THEN unchanged(403, "Assignment is archived")
        ELSE IF existing # 0 /\ ~allow_multi
             THEN unchanged(400, "Assignment already submitted")
        ELSE
            LET kept      == discard_existing(submissions, existing)
                questions == assignments[aid].questions
                details   == api_detailed_results(questions, answers)
                score     == api_score(questions, answers)
                total     == total_points_of(questions)
                award     == points_award(score)
            IN  IF sid \in DOMAIN students /\ ~award.ok
                THEN unchanged(500, "Database error")
                ELSE
                  [submissions |-> Append(kept, NewSubmission(aid, sid, score, total)),
                   students |->
                       IF sid \in DOMAIN students
                       THEN [students EXCEPT ![sid].total_points =
                                 new_total(students[sid].total_points, award.added)]
                       ELSE students,
                   response |-> Scored("api_submit", aid, sid, score, total, details, answers)]

(***************************************************************************)
(* POST /take_assignment/{assignment_id} of the web application, for the   *)
(* student of the session (sid 0: no student in the session).              *)
(***************************************************************************)
take_assignment(aid, sid, form) ==
    LET unchanged(status, detail) ==
            [submissions |-> submissions,
             response |-> Reply("take_assignment", aid, sid, status, detail)]
    IN  IF sid = 0 THEN unchanged(302, "You must be logged in as a student")
        ELSE IF aid \notin DOMAIN assignments THEN unchanged(302, "Assignment not found")
        ELSE IF first_submission(submissions, aid, sid) # 0
             THEN unchanged(302, "Retakes are not allowed")
        ELSE
            LET questions == assignments[aid].questions
                details   == web_detailed_results(questions, form)
                score     == web_score(questions, form)
                total     == total_points_of(questions)
            IN  [submissions |-> Append(submissions, NewSubmission(aid, sid, score, total)),
                 response |-> Scored("take_assignment", aid, sid, score, total, details, form)]

(***************************************************************************)
(* POST /assignment/{assignment_id}/submit of the streamlined variant      *)
(* (src/app_full_bloated.py), on its own submission table.  answers is a   *)
(* list of [question_id, answer]; a question is looked up by id alone.     *)
(***************************************************************************)
AllQuestions ==
    UNION {{assignments[a].questions[i] : i \in DOMAIN assignments[a].questions} :
              a \in DOMAIN assignments}

question_by_id(qid) ==
    IF \E q \in AllQuestions : q.id = qid
    THEN {CHOOSE q \in AllQuestions : q.id = qid}
    ELSE {}

\* Mutant of stream_tally: a question answered twice counts once in the total
\* and twice in the score.
RECURSIVE stream_tally_once(_, _, _, _)
stream_tally_once(answers, i, score, total) ==
    IF i > Len(answers) THEN [score |-> score, total_points |-> total]
    ELSE LET student_answer == strip(answers[i].answer)
             found == question_by_id(answers[i].question_id)
             seen  == \E j \in 1..(i - 1) : answers[j].question_id = answers[i].question_id
         IN  IF found = {} THEN stream_tally_once(answers, i + 1, score, total)
             ELSE LET question == CHOOSE q \in found : TRUE
                  IN  stream_tally_once(answers, i + 1,
                          IF any_equal(question.correct_answers, student_answer)
                          THEN score + question.points ELSE score,
                          IF seen THEN total ELSE total + question.points)

\* [score, total] after the answers from position i on.
RECURSIVE stream_tally(_, _, _, _)
stream_tally(answers, i, score, total) ==
    IF i > Len(answers) THEN [score |-> score, total_points |-> total]
    ELSE LET student_answer == strip(answers[i].answer)
             found == question_by_id(answers[i].question_id)
         IN  IF found = {} THEN stream_tally(answers, i + 1, score, total)
             ELSE LET question == CHOOSE q \in found : TRUE
                  IN  stream_tally(answers, i + 1,
                          IF any_equal(question.correct_answers, student_answer)
                          THEN score + question.points ELSE score,
                          total + question.points)

submit_assignment(aid, sid, answers) ==
    LET unchanged(status, detail) ==
            [s_submissions |-> s_submissions,
             response |-> Reply("submit_assignment", aid, sid, status, detail)]
        tally == stream_tally(answers, 1, 0, 0)
    IN  IF sid = 0 THEN unchanged(400, "Student ID required")
        ELSE IF aid \notin DOMAIN assignments THEN unchanged(404, "Assignment not found")
        ELSE [s_submissions |->
                  Append(s_submissions,
                         NewSubmission(aid, sid, tally.score, tally.total_points)),
              response |-> Scored("submit_assignment", aid, sid,
                                  tally.score, tally.total_points, <<>>, answers)]

(***************************************************************************)
(* The handlers as actions.                                                *)
(***************************************************************************)
ApiSubmit(aid, sid, answers) ==
    LET r == submit_assignment_from_game(aid, sid, answers)
    IN  /\ submissions' = r.submissions
        /\ students' = r.students
        /\ response' = r.response
        /\ UNCHANGED <<enrollments, app_settings, classes, assignments, s_submissions, reqs>>

TakeAssignment(aid, sid, form) ==
    LET r == take_assignment(aid, sid, form)
    IN  /\ submissions' = r.submissions
        /\ response' = r.response
        /\ UNCHANGED <<enrollments, app_settings, students, classes, assignments, s_submissions, reqs>>

StreamSubmit(aid, sid, answers) ==
    LET r == submit_assignment(aid, sid, answers)
    IN  /\ s_submissions' = r.s_submissions
        /\ response' = r.response
        /\ UNCHANGED <<enrollments, app_settings, students, classes, assignments, submissions, reqs>>

(***************************************************************************)
(* SpecScore: the scorers as functions of their inputs.  The initial state *)
(* holds one class, one student and one assignment whose question list is  *)
(* drawn from ScoreInputs; one request is then scored by one of the paths. *)
(***************************************************************************)
PointValues == {-1} \cup (0..MaxPoints)

SeqsUpTo(S, n) == UNION {[1..k -> S] : k \in 0..n}

\* The texts stored as accepted answers: empty, a blank, "a", and "A" followed
\* by a blank.
AcceptedTexts == {<<>>, <<" ">>, <<"a">>, <<"A", " ">>}

\* One question with every type, and every list of at most MaxAccepted
\* accepted answers.
RichQuestions ==
    {[id |-> 1, question_type |-> t, points |-> 1, correct_answers |-> cas] :
        t \in QuestionTypes, cas \in SeqsUpTo(AcceptedTexts, MaxAccepted)}

\* Two questions of every type and point value, accepted answer "a".
PlainQuestion(id) ==
    {[id |-> id, question_type |-> t, points |-> p, correct_answers |-> <<<<"a">>>>] :
        t \in QuestionTypes, p \in PointValues}

ScoreInputs ==
    {[questions |-> <<q>>, total_points |-> Val(0)] : q \in RichQuestions}
    \cup {[questions |-> <<q1, q2>>, total_points |-> tp] :
             q1 \in PlainQuestion(1), q2 \in PlainQuestion(2), tp \in {NULL, Val(3)}}
    \cup {[questions |-> <<>>, total_points |-> Val(0)]}

PartialMaps(keys, values) == UNION {[S -> values] : S \in SUBSET keys}

IdsOf(questions) == {questions[i].id : i \in DOMAIN questions}

\* The answers tried on a question list: every text up to MaxAnsLen on a
\* single question, a few texts on each question of a longer list.
ScoreAnswers(questions) ==
    IF Len(questions) = 1
    THEN PartialMaps(IdsOf(questions), StringsUpTo(MaxAnsLen))
    ELSE PartialMaps(IdsOf(questions), {<<>>, <<"a">>, <<"b">>})

\* Answer lists of the streamlined variant: at most two entries, the same
\* question possibly twice, question 3 not existing.
StreamAnswers ==
    SeqsUpTo({[question_id |-> i, answer |-> <<"a">>] : i \in 1..3}
                 \cup {[question_id |-> 1, answer |-> <<"A", " ">>]}, 2)

InitScore ==
    \E inp \in ScoreInputs :
        /\ app_settings = << >>
        /\ students = (1 :> [email |-> "s1", total_points |-> inp.total_points])
        /\ classes = (1 :> [is_archived |-> FALSE])
        /\ assignments = (1 :> [class_id |-> 1, is_archived |-> FALSE,
                                questions |-> inp.questions])
        /\ submissions = <<>>
        /\ s_submissions = <<>>
        /\ enrollments = <<>>
        /\ response = NoResponse
        /\ reqs = <<>>

ScoreApi ==
    /\ response.op = "none"
    /\ \E answers \in ScoreAnswers(assignments[1].questions) : ApiSubmit(1, 1, answers)

ScoreWeb ==
    /\ response.op = "none"
    /\ \E form \in ScoreAnswers(assignments[1].questions) : TakeAssignment(1, 1, form)

ScoreStream ==
    /\ response.op = "none"
    /\ \E answers \in StreamAnswers : StreamSubmit(1, 1, answers)

NextScore == ScoreApi \/ ScoreWeb \/ ScoreStream

SpecScore == InitScore /\ [][NextScore]_vars

(***************************************************************************)
(* The other handlers of the sequential machine.                           *)
(***************************************************************************)
NextId(table) == IF DOMAIN table = {} THEN 1 ELSE SetMax(DOMAIN table) + 1

AddRow(table, row) ==
    [k \in DOMAIN table \cup {NextId(table)} |->
        IF k \in DOMAIN table THEN table[k] ELSE row]

\* set_setting(db, key, value): update the row of the key or insert it.
set_setting(key, value) ==
    [k \in DOMAIN app_settings \cup {key} |-> IF k = key THEN value ELSE app_settings[k]]

SetSetting(key, value) ==
    /\ app_settings' = set_setting(key, value)
    /\ response' = Reply("set_setting", 0, 0, 200, key)
    /\ UNCHANGED <<enrollments, students, classes, assignments, submissions, s_submissions, reqs>>

\* POST /create_class with a name and a teacher: one more class, not archived.
create_class == AddRow(classes, [is_archived |-> FALSE])

CreateClass ==
    /\ classes' = create_class
    /\ response' = Reply("create_class", 0, 0, 302, "Class created successfully!")
    /\ UNCHANGED <<enrollments, app_settings, students, assignments, submissions, s_submissions, reqs>>

\* POST /student/simple-register with a name, an email and a password.
simple_register_student(email) ==
    IF api_guard.blocked
    THEN [students |-> students,
          response |-> Reply("simple_register", 0, 0, 503, api_guard.detail)]
    ELSE IF \E k \in DOMAIN students : students[k].email = email
    THEN [students |-> students,
          response |-> Reply("simple_register", 0, 0, 400, "Email already exists")]
    ELSE [students |-> AddRow(students, [email |-> email, total_points |-> Val(0)]),
          response |-> Reply("simple_register", 0, NextId(students), 200, "success")]

SimpleRegister(email) ==
    LET r == simple_register_student(email)
    IN  /\ students' = r.students
        /\ response' = r.response
        /\ UNCHANGED <<enrollments, app_settings, classes, assignments, submissions, s_submissions, reqs>>

\* The question types create_assignment stores; any other is skipped.
CreateTypes == {"multiple_choice", "identification", "enumeration",
                "problem_solving", "essay"}

\* The CorrectAnswer rows create_assignment adds for one posted question.
created_answers(q) ==
    CASE q.type \in {"multiple_choice", "enumeration"} -> q.correct_answers
      [] q.type \in {"identification", "problem_solving"} ->
             IF q.correct_answer # <<>> THEN <<q.correct_answer>> ELSE <<>>
      [] OTHER -> <<>>

\* The loop of create_assignment over the posted questions; id is the next
\* free question id.
RECURSIVE created_questions(_, _)
created_questions(data, id) ==
    IF data = <<>> THEN <<>>
    ELSE LET q == Head(data)
         IN  IF strip(q.text) = <<>> \/ q.type \notin CreateTypes
             THEN created_questions(Tail(data), id)
             ELSE <<[id |-> id, question_type |-> q.type, points |-> q.points,
                     correct_answers |-> created_answers(q)]>>
                  \o created_questions(Tail(data), id + 1)

NextQuestionId ==
    IF AllQuestions = {} THEN 1 ELSE SetMax({q.id : q \in AllQuestions}) + 1

\* POST /create_assignment/{class_id} with a title and a question list.
create_assignment(class_id, data) ==
    IF class_id \notin DOMAIN classes
    THEN [assignments |-> assignments,
          response |-> Reply("create_assignment", 0, 0, 302, "Class not found")]
    ELSE [assignments |->
              AddRow(assignments,
                     [class_id |-> class_id, is_archived |-> FALSE,
                      questions |-> created_questions(data, NextQuestionId)]),
          response |-> Reply("create_assignment", NextId(assignments), 0, 302,
                             "Assignment created successfully!")]

CreateAssignment(class_id, data) ==
    LET r == create_assignment(class_id, data)
    IN  /\ assignments' = r.assignments
        /\ response' = r.response
        /\ UNCHANGED <<enrollments, app_settings, students, classes, submissions, s_submissions, reqs>>

(***************************************************************************)
(* GET /leaderboard/{class_code}.  A class is named by its id (class codes *)
(* are unique).  The query has no ORDER BY, so the rows of the class come   *)
(* back in an order the handler does not choose: order is a permutation of  *)
(* their row numbers.                                                       *)
(***************************************************************************)
\* int(text): blanks around an optionally signed run of digits, else an error.
int(s) ==
    LET t    == strip(s)
        sgn  == t # <<>> /\ t[1] \in {"-", "+"}
        body == IF sgn THEN Tail(t) ELSE t
    IN  IF AllDigits(body)
        THEN [ok |-> TRUE, value |-> IF sgn /\ t[1] = "-" THEN 0 - DigitsVal(body)
                                     ELSE DigitsVal(body)]
        ELSE [ok |-> FALSE, value |-> 0]

\* top_n: int(get_setting(..., "10")), 10 when int() raises.
leaderboard_size ==
    LET n == int(get_setting(KeyLeaderboardSize, <<"1", "0">>))
    IN  IF n.ok THEN n.value ELSE 10

\* submissions JOIN assignments WHERE assignments.class_id = class_id
ClassRows(class_id) ==
    {i \in DOMAIN submissions :
        /\ submissions[i].assignment_id \in DOMAIN assignments
        /\ assignments[submissions[i].assignment_id].class_id = class_id}

Orders(S) ==
    {f \in [1..Cardinality(S) -> S] : \A i, j \in DOMAIN f : f[i] = f[j] => i = j}

\* The elements of a set of numbers in increasing order.
Ascending(S) ==
    [k \in 1..Cardinality(S) |-> CHOOSE x \in S : Cardinality({y \in S : y < x}) = k - 1]

\* The keys of student_scores in insertion order: each student id where the
\* rows name it first.
first_encountered(rows) ==
    LET firsts == {i \in DOMAIN rows :
                      \A j \in 1..(i - 1) : rows[j].student_id # rows[i].student_id}
    IN  [k \in 1..Cardinality(firsts) |-> rows[Ascending(firsts)[k]].student_id]

\* Mutant of student_entry: only the student's latest row is kept.
student_entry_latest(rows, sid) ==
    LET mine == {i \in DOMAIN rows : rows[i].student_id = sid}
        last == rows[SetMax(mine)]
    IN  [student_id |-> sid,
         name |-> IF sid \in DOMAIN students THEN students[sid].email ELSE "Unknown",
         total_score |-> last.score,
         total_possible |-> last.total_points,
         percentage |-> percentage(last.score, last.total_points),
         assignments_completed |-> 1]

\* The entry of one student: the sums and the count over the student's rows
\* (the student's email stands for the name).
student_entry(rows, sid) ==
    LET mine     == {i \in DOMAIN rows : rows[i].student_id = sid}
        scores   == [k \in 1..Cardinality(mine) |-> rows[Ascending(mine)[k]].score]
        possible == [k \in 1..Cardinality(mine) |-> rows[Ascending(mine)[k]].total_points]
    IN  [student_id |-> sid,
         name |-> IF sid \in DOMAIN students THEN students[sid].email ELSE "Unknown",
         total_score |-> SumSeq(scores),
         total_possible |-> SumSeq(possible),
         percentage |-> percentage(SumSeq(scores), SumSeq(possible)),
         assignments_completed |-> Cardinality(mine)]

\* Mutant of sort_by_total_score: sorted ascending and then reversed, which
\* turns equal scores around.
sort_ascending_reversed(entries) ==
    LET n == Len(entries)
        pos(i) == 1 + Cardinality({j \in 1..n :
                         \/ entries[j].total_score > entries[i].total_score
                         \/ entries[j].total_score = entries[i].total_score /\ j > i})
    IN  [p \in 1..n |-> entries[CHOOSE i \in 1..n : pos(i) = p]]

\* leaderboard.sort(key=total_score, reverse=True): a stable sort, equal
\* scores keep their order.
sort_by_total_score(entries) ==
    LET n == Len(entries)
        pos(i) == 1 + Cardinality({j \in 1..n :
                         \/ entries[j].total_score > entries[i].total_score
                         \/ entries[j].total_score = entries[i].total_score /\ j < i})
    IN  [p \in 1..n |-> entries[CHOOSE i \in 1..n : pos(i) = p]]

\* Mutant of truncate: leaderboard[:top_n] without the max(1, ...).
truncate_unclamped(entries, top_n) ==
    IF top_n >= 0
    THEN SubSeq(entries, 1, IF top_n < Len(entries) THEN top_n ELSE Len(entries))
    ELSE SubSeq(entries, 1, IF Len(entries) + top_n > 0 THEN Len(entries) + top_n ELSE 0)

\* leaderboard[:max(1, top_n)]
truncate(entries, top_n) ==
    LET n == IF top_n > 1 THEN top_n ELSE 1
    IN  SubSeq(entries, 1, IF n < Len(entries) THEN n ELSE Len(entries))

\* Mutant of with_ranks: equal scores share a rank.
with_ranks_shared(entries) ==
    [i \in DOMAIN entries |->
        [student_id |-> entries[i].student_id, name |-> entries[i].name,
         total_score |-> entries[i].total_score,
         total_possible |-> entries[i].total_possible,
         percentage |-> entries[i].percentage,
         assignments_completed |-> entries[i].assignments_completed,
         rank |-> 1 + Cardinality({j \in DOMAIN entries :
                         entries[j].total_score > entries[i].total_score})]]

\* student["rank"] = i + 1
with_ranks(entries) ==
    [i \in DOMAIN entries |->
        [student_id |-> entries[i].student_id, name |-> entries[i].name,
         total_score |-> entries[i].total_score,
         total_possible |-> entries[i].total_possible,
         percentage |-> entries[i].percentage,
         assignments_completed |-> entries[i].assignments_completed,
         rank |-> i]]

\* Mutant of leaderboard_of: rows of students that do not exist are left out.
leaderboard_of_known(rows) ==
    LET keys    == SelectSeq(first_encountered(rows), LAMBDA sid : sid \in DOMAIN students)
        entries == [k \in DOMAIN keys |-> student_entry(rows, keys[k])]
    IN  with_ranks(truncate(sort_by_total_score(entries), leaderboard_size))

\* The list the handler returns for the rows it read, in the order read.
leaderboard_of(rows) ==
    LET keys    == first_encountered(rows)
        entries == [k \in DOMAIN keys |-> student_entry(rows, keys[k])]
    IN  with_ranks(truncate(sort_by_total_score(entries), leaderboard_size))

\* What a leaderboard request answers; submissions is what the query returned.
BoardReply(class_id, status, detail, rows, board) ==
    [op |-> "leaderboard", class_id |-> class_id, status |-> status,
     detail |-> detail, submissions |-> rows, leaderboard |-> board]

get_class_leaderboard(class_id, order) ==
    IF api_guard.blocked THEN BoardReply(class_id, 503, api_guard.detail, <<>>, <<>>)
    ELSE IF class_id \notin DOMAIN classes
    THEN BoardReply(class_id, 404, "Class not found", <<>>, <<>>)
    ELSE LET rows == [k \in DOMAIN order |-> submissions[order[k]]]
         IN  BoardReply(class_id, 200, "success", rows, leaderboard_of(rows))

GetClassLeaderboard(class_id) ==
    /\ \E order \in Orders(ClassRows(class_id)) :
          response' = get_class_leaderboard(class_id, order)
    /\ UNCHANGED <<enrollments, app_settings, students, classes, assignments, submissions,
                   s_submissions, reqs>>

(***************************************************************************)
(* GET /delete_assignment/{assignment_id}.  who is the session: nobody      *)
(* logged in, the admin, the teacher of the assignment's class, or another  *)
(* teacher.                                                                 *)
(***************************************************************************)
Sessions == {"none", "admin", "owner", "other"}

delete_assignment(aid, who) ==
    LET unchanged(detail) ==
            [assignments |-> assignments, submissions |-> submissions,
             response |-> Reply("delete_assignment", aid, 0, 302, detail)]
        kept == {i \in DOMAIN submissions : submissions[i].assignment_id # aid}
    IN  IF who = "none" THEN unchanged("login")
        ELSE IF aid \notin DOMAIN assignments THEN unchanged("Assignment not found")
        ELSE IF who = "other"
             THEN unchanged("You don't have permission to delete this assignment")
        ELSE [assignments |-> [k \in DOMAIN assignments \ {aid} |-> assignments[k]],
              submissions |-> [k \in 1..Cardinality(kept) |->
                                  submissions[Ascending(kept)[k]]],
              response |-> Reply("delete_assignment", aid, 0, 302,
                                 "Assignment deleted successfully")]

DeleteAssignment(aid, who) ==
    LET r == delete_assignment(aid, who)
    IN  /\ assignments' = r.assignments
        /\ submissions' = r.submissions
        /\ response' = r.response
        /\ UNCHANGED <<enrollments, app_settings, students, classes, s_submissions, reqs>>

(***************************************************************************)
(* /edit_assignment/{assignment_id}.  GET renders the stored questions as  *)
(* the list the form posts back; POST deletes the assignment's questions   *)
(* with one bulk DELETE and rebuilds them from the posted list.  The bulk  *)
(* DELETE removes no CorrectAnswer row (the engine of line 21 does not     *)
(* switch SQLite's foreign keys on, and delete_assignment deletes them by  *)
(* hand), and SQLite numbers a new question max(id) + 1, so a rebuilt      *)
(* question that gets the id of a deleted one also gets its old rows,      *)
(* which come first in the table.                                          *)
(***************************************************************************)
EditTypes == {"multiple_choice", "enumeration", "problem_solving", "essay"}

\* The dict GET builds for one stored question (keys it leaves out read as
\* the defaults of the POST's q.get: [] and "").
loaded_question(q) ==
    LET t     == q.question_type
        cas   == q.correct_answers
        first == IF cas = <<>> THEN <<>> ELSE <<cas[1]>>
    IN  [text |-> <<"a">>, type |-> t, points |-> q.points,
         correct_answers |->
             IF t \in {"multiple_choice", "enumeration", "fill_in_the_blanks"} THEN cas
             ELSE IF t = "yes_no" THEN first
             ELSE <<>>,
         correct_answer |->
             IF t \in {"problem_solving", "identification"} /\ cas # <<>>
             THEN cas[1] ELSE <<>>]

edit_assignment_get(aid) ==
    [i \in DOMAIN assignments[aid].questions |->
        loaded_question(assignments[aid].questions[i])]

\* The CorrectAnswer rows the POST adds for one posted question.
edited_answers(q) ==
    CASE q.type \in {"multiple_choice", "enumeration"} -> q.correct_answers
      [] q.type \in {"problem_solving", "identification"} ->
             IF q.correct_answer # <<>> THEN <<q.correct_answer>> ELSE <<>>
      [] OTHER -> <<>>

\* The CorrectAnswer rows left behind for question id by the bulk DELETE.
left_answers(old, id) ==
    IF \E i \in DOMAIN old : old[i].id = id
    THEN old[CHOOSE i \in DOMAIN old : old[i].id = id].correct_answers
    ELSE <<>>

\* The loop of the POST over the posted questions; id is the next free
\* question id, old the questions the bulk DELETE removed.
RECURSIVE edited_questions(_, _, _)
edited_questions(data, id, old) ==
    IF data = <<>> THEN <<>>
    ELSE LET q == Head(data)
         IN  IF strip(q.text) = <<>> \/ q.type \notin EditTypes
             THEN edited_questions(Tail(data), id, old)
             ELSE <<[id |-> id, question_type |-> q.type, points |-> q.points,
                     correct_answers |-> left_answers(old, id) \o edited_answers(q)]>>
                  \o edited_questions(Tail(data), id + 1, old)

\* POST /edit_assignment/{assignment_id} with a title and a question list.
edit_assignment(aid, who, data) ==
    LET unchanged(detail) ==
            [assignments |-> assignments,
             response |-> Reply("edit_assignment", aid, 0, 302, detail)]
    IN  IF who = "none" THEN unchanged("login")
        ELSE IF aid \notin DOMAIN assignments \/ who = "other"
             THEN unchanged("Assignment not found")
        ELSE LET old    == assignments[aid].questions
                 others == UNION {IdsOf(assignments[k].questions) :
                                     k \in DOMAIN assignments \ {aid}}
                 next   == IF others = {} THEN 1 ELSE SetMax(others) + 1
             IN  [assignments |->
                      [assignments EXCEPT ![aid].questions =
                                              edited_questions(data, next, old)],
                  response |-> Reply("edit_assignment", aid, 0, 302,
                                     "Assignment updated successfully!")]

EditAssignment(aid, who, data) ==
    LET r == edit_assignment(aid, who, data)
    IN  /\ assignments' = r.assignments
        /\ response' = r.response
        /\ UNCHANGED <<enrollments, app_settings, students, classes, submissions, s_submissions, reqs>>

(***************************************************************************)
(* POST /class/{class_id}/archive and /class/{class_id}/restore.  who is   *)
(* the session as for delete_assignment.                                   *)
(***************************************************************************)
\* The handler without its loop over the assignments of the class.
set_archived_class_only(class_id, who, flag, done) ==
    LET op == IF flag THEN "archive_class" ELSE "restore_class"
    IN  IF who = "none"
        THEN [classes |-> classes, assignments |-> assignments,
              response |-> Reply(op, 0, 0, 302, "login")]
        ELSE IF class_id \notin DOMAIN classes \/ who = "other"
        THEN [classes |-> classes, assignments |-> assignments,
              response |-> Reply(op, 0, 0, 302, "Class not found")]
        ELSE [classes |-> [classes EXCEPT ![class_id].is_archived = flag],
              assignments |-> assignments,
              response |-> Reply(op, 0, 0, 302, done)]

\* archive_class (flag TRUE) and restore_class (flag FALSE), which differ in
\* the flag they write and in the message they flash.
set_archived(class_id, who, flag, done) ==
    LET unchanged(detail) ==
            [classes |-> classes, assignments |-> assignments,
             response |-> Reply(IF flag THEN "archive_class" ELSE "restore_class",
                                0, 0, 302, detail)]
    IN  IF who = "none" THEN unchanged("login")
        ELSE IF class_id \notin DOMAIN classes \/ who = "other"
             THEN unchanged("Class not found")
        ELSE [classes |-> [classes EXCEPT ![class_id].is_archived = flag],
              assignments |->
                  [k \in DOMAIN assignments |->
                      IF assignments[k].class_id = class_id
                      THEN [assignments[k] EXCEPT !.is_archived = flag]
                      ELSE assignments[k]],
              response |-> Reply(IF flag THEN "archive_class" ELSE "restore_class",
                                 0, 0, 302, done)]

archive_class(class_id, who) == set_archived(class_id, who, TRUE, "Class archived")

restore_class(class_id, who) == set_archived(class_id, who, FALSE, "Class restored")

ArchiveClass(class_id, who) ==
    LET r == archive_class(class_id, who)
    IN  /\ classes' = r.classes
        /\ assignments' = r.assignments
        /\ response' = r.response
        /\ UNCHANGED <<enrollments, app_settings, students, submissions, s_submissions, reqs>>

RestoreClass(class_id, who) ==
    LET r == restore_class(class_id, who)
    IN  /\ classes' = r.classes
        /\ assignments' = r.assignments
        /\ response' = r.response
        /\ UNCHANGED <<enrollments, app_settings, students, submissions, s_submissions, reqs>>

(***************************************************************************)
(* Spec: the handlers one request at a time, from the empty database.      *)
(***************************************************************************)
Posted(type, points, answers, answer) ==
    [text |-> <<"a">>, type |-> type, points |-> points,
     correct_answers |-> answers, correct_answer |-> answer]

\* The question lists teachers post.
PostedLists ==
    {<<Posted("multiple_choice", 2, <<<<"a">>>>, <<>>),
       Posted("identification", 1, <<>>, <<"a">>)>>,
     <<Posted("yes_no", 1, <<<<"a">>>>, <<>>),
       Posted("essay", 1, <<>>, <<>>),
       [Posted("enumeration", 1, <<<<"a">>, <<"b">>>>, <<>>) EXCEPT !.text = <<" ">>]>>}

\* The emails students register with, and the student ids requests name
\* (0: none given; 2: no such student).
Emails == {"s1"}

StudentIdInputs == {0, 1, 2}

\* The assignment ids requests name (2: no such assignment).
AssignmentIdInputs == {1, 2}

SettingInputs ==
    {<<KeyAllowMulti, <<"T","r","u","e">>>>,
     <<KeyAllowMulti, <<"n","o">>>>,
     <<KeyMultiplier, <<"1",".","5">>>>,
     <<KeyMultiplier, <<"x">>>>}

\* The answers tried in Spec: "a" on any of the assignment's questions.
SpecAnswers(aid) ==
    IF aid \in DOMAIN assignments
    THEN PartialMaps(IdsOf(assignments[aid].questions), {<<"a">>})
    ELSE {<< >>}

WithinCap ==
    \A k \in DOMAIN students : or_zero(students[k].total_points) <= PointsCap

Init ==
    /\ app_settings = << >>
    /\ students = << >>
    /\ classes = << >>
    /\ assignments = << >>
    /\ submissions = <<>>
    /\ s_submissions = <<>>
    /\ enrollments = <<>>
    /\ response = NoResponse
    /\ reqs = <<>>

WriteSetting == \E kv \in SettingInputs : SetSetting(kv[1], kv[2])

NewClass == DOMAIN classes = {} /\ CreateClass

NewAssignment ==
    /\ DOMAIN assignments = {}
    /\ \E c \in 1..2, data \in PostedLists : CreateAssignment(c, data)

NewStudent == \E e \in Emails : SimpleRegister(e)

SubmitApi ==
    /\ WithinCap
    /\ \E aid \in AssignmentIdInputs, sid \in StudentIdInputs :
          \E answers \in SpecAnswers(aid) : ApiSubmit(aid, sid, answers)

SubmitWeb ==
    \E aid \in AssignmentIdInputs, sid \in StudentIdInputs :
        \E form \in SpecAnswers(aid) : TakeAssignment(aid, sid, form)

\* The classes leaderboard requests name (2: no such class).
ClassIdInputs == {1, 2}

ReadLeaderboard == \E class_id \in ClassIdInputs : GetClassLeaderboard(class_id)

RemoveAssignment ==
    \E aid \in AssignmentIdInputs, who \in Sessions : DeleteAssignment(aid, who)

Next ==
    \/ WriteSetting
    \/ NewClass
    \/ NewAssignment
    \/ NewStudent
    \/ SubmitApi
    \/ SubmitWeb
    \/ ReadLeaderboard
    \/ RemoveAssignment

Spec == Init /\ [][Next]_vars

(***************************************************************************)
(* SpecConc: API submit requests served concurrently, each in its own      *)
(* session.  A request reads (the guard, the assignment, the existing      *)
(* submission: lines 811-834), scores and reads the student (836-910) and  *)
(* commits (912); another request may run between any two of these.        *)
(* Nothing is written before the commit except the flushed DELETE of a     *)
(* replaced submission, which holds the database's write lock.             *)
(***************************************************************************)
NewRequest(aid, sid, answers) ==
    [pc |-> "check", assignment_id |-> aid, student_id |-> sid, answers |-> answers,
     discard |-> 0, locked |-> FALSE, score |-> 0, total_points |-> 0,
     detailed_results |-> <<>>, new_points |-> NULL]

OtherWriter(r) == \E o \in DOMAIN reqs : o # r /\ reqs[o].locked

Finish(r, reply) ==
    /\ reqs' = [reqs EXCEPT ![r].pc = "done", ![r].locked = FALSE]
    /\ response' = reply

ReqStart ==
    /\ Len(reqs) < MaxRequests
    /\ \E aid \in DOMAIN assignments, sid \in DOMAIN students :
          \E answers \in SpecAnswers(aid) :
              reqs' = Append(reqs, NewRequest(aid, sid, answers))
    /\ UNCHANGED <<enrollments, app_settings, students, classes, assignments, submissions,
                   s_submissions, response>>

\* Lines 811-834.
ReqCheck(r) ==
    LET aid == reqs[r].assignment_id
        sid == reqs[r].student_id
        existing == first_submission(submissions, aid, sid)
        allow_multi == to_bool(get_setting(KeyAllowMulti, <<"f","a","l","s","e">>))
        reject(status, detail) == Finish(r, Reply("api_submit", aid, sid, status, detail))
    IN  /\ reqs[r].pc = "check"
        /\ IF api_guard.blocked THEN reject(503, api_guard.detail)
           ELSE IF sid = 0 THEN reject(400, "Student ID is required")
           ELSE IF aid \notin DOMAIN assignments THEN reject(404, "Assignment not found")
           ELSE IF assignments[aid].is_archived
                       \/ classes[assignments[aid].class_id].is_archived
                THEN reject(403, "Assignment is archived")
           ELSE IF existing # 0 /\ ~allow_multi
                THEN reject(400, "Assignment already submitted")
           ELSE IF existing # 0
                THEN /\ ~OtherWriter(r)
                     /\ reqs' = [reqs EXCEPT ![r].pc = "score", ![r].discard = existing,
                                             ![r].locked = TRUE]
                     /\ UNCHANGED response
           ELSE /\ reqs' = [reqs EXCEPT ![r].pc = "score"]
                /\ UNCHANGED response
        /\ UNCHANGED <<enrollments, app_settings, students, classes, assignments, submissions,
                       s_submissions>>

\* Lines 836-910: the score, and the student's new total from the total read
\* now.  new_points stays NULL when there is no student row or when the new
\* total equals the one read: the UPDATE at the commit then leaves the column
\* out.
ReqScore(r) ==
    LET aid == reqs[r].assignment_id
        sid == reqs[r].student_id
        questions == assignments[aid].questions
        score == api_score(questions, reqs[r].answers)
        award == points_award(score)
    IN  /\ reqs[r].pc = "score"
        /\ IF sid \in DOMAIN students /\ ~award.ok
           THEN Finish(r, Reply("api_submit", aid, sid, 500, "Database error"))
           ELSE /\ reqs' = [reqs EXCEPT
                      ![r].pc = "commit",
                      ![r].score = score,
                      ![r].total_points = total_points_of(questions),
                      ![r].detailed_results = api_detailed_results(questions, reqs[r].answers),
                      ![r].new_points =
                          IF /\ sid \in DOMAIN students
                             /\ new_total(students[sid].total_points, award.added)
                                    # students[sid].total_points
                          THEN new_total(students[sid].total_points, award.added)
                          ELSE NULL]
                /\ UNCHANGED response
        /\ UNCHANGED <<enrollments, app_settings, students, classes, assignments, submissions,
                       s_submissions>>

\* Line 912: the INSERT, the UPDATE of the student and the commit.
ReqCommit(r) ==
    LET q == reqs[r]
    IN  /\ q.pc = "commit"
        /\ ~OtherWriter(r)
        /\ submissions' =
               Append(discard_existing(submissions, q.discard),
                      NewSubmission(q.assignment_id, q.student_id, q.score, q.total_points))
        /\ students' =
               IF q.new_points # NULL
               THEN [students EXCEPT ![q.student_id].total_points = q.new_points]
               ELSE students
        /\ Finish(r, Scored("api_submit", q.assignment_id, q.student_id, q.score,
                            q.total_points, q.detailed_results, q.answers))
        /\ UNCHANGED <<enrollments, app_settings, classes, assignments, s_submissions>>

\* A database the sequential machine reaches: one class, one student, two
\* assignments made from the first posted list; allow_multiple_submissions
\* unset or set to a false text.
InitConc ==
    /\ app_settings \in {<< >>, (KeyAllowMulti :> <<"n","o">>)}
    /\ students = (1 :> [email |-> "s1", total_points |-> Val(0)])
    /\ classes = (1 :> [is_archived |-> FALSE])
    /\ \E data \in PostedLists :
          /\ Len(created_questions(data, 1)) = 2
          /\ assignments =
                 (1 :> [class_id |-> 1, is_archived |-> FALSE,
                        questions |-> created_questions(data, 1)])
                 @@ (2 :> [class_id |-> 1, is_archived |-> FALSE,
                           questions |-> created_questions(data, 3)])
    /\ submissions = <<>>
    /\ s_submissions = <<>>
    /\ enrollments = <<>>
    /\ response = NoResponse
    /\ reqs = <<>>

Check == \E r \in DOMAIN reqs : ReqCheck(r)

Score == \E r \in DOMAIN reqs : ReqScore(r)

Commit == \E r \in DOMAIN reqs : ReqCommit(r)

NextConc == ReqStart \/ Check \/ Score \/ Commit

SpecConc == InitConc /\ [][NextConc]_vars

(***************************************************************************)
(* SpecBoard: the leaderboard as a function of the stored rows and of the  *)
(* game.leaderboard_size setting.  The initial state holds two classes,    *)
(* assignments 1 and 2 in class 1, assignments 3 (one question worth no    *)
(* points) and 4 (no questions) in class 2, students 1 and 2 (rows may     *)
(* name a student 3 that no longer exists) and a list of at most MaxRows   *)
(* submission rows.  One request is then served: a leaderboard read, or an *)
(* API submit to an assignment of class 2.                                 *)
(***************************************************************************)
\* Rows with equal and different scores, two rows of one student, a row of the
\* other class, a row of an unknown student and a row with no possible points.
BoardRows ==
    {NewSubmission(1, 1, 1, 2), NewSubmission(2, 1, 1, 2), NewSubmission(1, 2, 2, 2),
     NewSubmission(1, 3, 1, 2), NewSubmission(3, 2, 2, 2), NewSubmission(2, 2, 0, 0)}

\* Three rows with larger scores: student 1 scores 8 of 10 and 7 of 10,
\* student 2 scores 20 of 20.
LargeRows ==
    <<NewSubmission(1, 1, 8, 10), NewSubmission(2, 1, 7, 10), NewSubmission(1, 2, 20, 20)>>

\* A question worth 0 points.
PointlessQuestion ==
    [id |-> 1, question_type |-> "multiple_choice", points |-> 0,
     correct_answers |-> <<<<"a">>>>]

BoardSettings ==
    {<< >>, (KeyMaintenance :> <<"o", "n">>)}
    \cup {(KeyLeaderboardSize :> t) :
             t \in {<<"0">>, <<"-", "1">>, <<"1">>, <<" ", "2">>, <<"x">>}}

InitBoard ==
    /\ app_settings \in BoardSettings
    /\ students = [k \in 1..2 |-> [email |-> IF k = 1 THEN "s1" ELSE "s2",
                                   total_points |-> Val(0)]]
    /\ classes = [k \in 1..2 |-> [is_archived |-> FALSE]]
    /\ assignments = [k \in 1..4 |->
                          [class_id |-> IF k >= 3 THEN 2 ELSE 1,
                           is_archived |-> FALSE,
                           questions |-> IF k = 3 THEN <<PointlessQuestion>> ELSE <<>>]]
    /\ submissions \in SeqsUpTo(BoardRows, MaxRows) \cup {LargeRows}
    /\ s_submissions = <<>>
    /\ enrollments = <<>>
    /\ response = NoResponse
    /\ reqs = <<>>

ReadBoard ==
    /\ response.op = "none"
    /\ \E class_id \in 1..3 : GetClassLeaderboard(class_id)

SubmitBoard ==
    /\ response.op = "none"
    /\ \E aid \in 3..4, sid \in 1..2 :
          \E answers \in PartialMaps(IdsOf(assignments[aid].questions), {<<"a">>}) :
              ApiSubmit(aid, sid, answers)

NextBoard == ReadBoard \/ SubmitBoard

SpecBoard == InitBoard /\ [][NextBoard]_vars

(***************************************************************************)
(* SpecAward: the points award as a function of the score and of the       *)
(* game.points_multiplier setting.  The initial state holds one class, one *)
(* student and one assignment of two multiple_choice questions worth 3 or  *)
(* 4 points each (scores 0, 3, 4, 6, 7, 8); one API submit is then served. *)
(***************************************************************************)
AwardPoints == {3, 4}

AwardMultipliers ==
    {<<"1", ".", "5">>, <<"0", ".", "5">>, <<"2">>, <<"x">>, <<"n", "a", "n">>,
     <<"-", "1">>}

AwardSettings == {<< >>} \cup {(KeyMultiplier :> t) : t \in AwardMultipliers}

AwardQuestion(id, p) ==
    [id |-> id, question_type |-> "multiple_choice", points |-> p,
     correct_answers |-> <<<<"a">>>>]

InitAward ==
    /\ app_settings \in AwardSettings
    /\ students \in {(1 :> [email |-> "s1", total_points |-> tp]) :
                         tp \in {NULL, Val(0), Val(5)}}
    /\ classes = (1 :> [is_archived |-> FALSE])
    /\ assignments \in
          {(1 :> [class_id |-> 1, is_archived |-> FALSE,
                  questions |-> <<AwardQuestion(1, p1), AwardQuestion(2, p2)>>]) :
              p1 \in AwardPoints, p2 \in AwardPoints}
    /\ submissions = <<>>
    /\ s_submissions = <<>>
    /\ enrollments = <<>>
    /\ response = NoResponse
    /\ reqs = <<>>

AwardSubmit ==
    /\ response.op = "none"
    /\ \E sid \in 1..2 :
          \E answers \in PartialMaps(IdsOf(assignments[1].questions), {<<"a">>, <<"b">>}) :
              ApiSubmit(1, sid, answers)

NextAward == AwardSubmit

SpecAward == InitAward /\ [][NextAward]_vars

(***************************************************************************)
(* The API submit on a payload of any shape.  The JSON body's "answers" is *)
(* [shape, texts, numbers]: shape "list" is a JSON array (no .get method); *)
(* shape "map" is an object whose values are the strings of texts, and a   *)
(* non-zero number for the question ids of numbers.                        *)
(***************************************************************************)
\* Scoring question q raises AttributeError when the answer is a number:
\* answer.lower(), answer.strip() or answer.split() is evaluated.
number_raises(q) ==
    /\ q.question_type \in {"identification", "problem_solving", "yes_no",
                            "fill_in_the_blanks", "enumeration"}
    /\ q.correct_answers # <<>>

submit_assignment_raw(aid, sid, payload) ==
    LET base      == submit_assignment_from_game(aid, sid, payload.texts)
        questions == assignments[aid].questions
        raises    ==
            \/ payload.shape = "list" /\ questions # <<>>
            \/ \E i \in DOMAIN questions :
                  questions[i].id \in payload.numbers /\ number_raises(questions[i])
    IN  IF base.response.status \in {200, 500} /\ raises
        THEN [submissions |-> submissions, students |-> students,
              response |-> Reply("api_submit", aid, sid, 500, "Database error")]
        ELSE base

ApiSubmitRaw(aid, sid, payload) ==
    LET r == submit_assignment_raw(aid, sid, payload)
    IN  /\ submissions' = r.submissions
        /\ students' = r.students
        /\ response' = r.response
        /\ UNCHANGED <<enrollments, app_settings, classes, assignments, s_submissions, reqs>>

\* The payloads tried on a question list.
Payloads(questions) ==
    {[shape |-> "list", texts |-> << >>, numbers |-> {}]}
    \cup UNION {{[shape |-> "map", texts |-> t, numbers |-> n] :
                    n \in SUBSET (IdsOf(questions) \ DOMAIN t)} :
                 t \in PartialMaps(IdsOf(questions), {<<"a">>})}

\* The payload is not a map from question id to string.
InvalidShape(payload) == payload.shape = "list" \/ payload.numbers # {}

(***************************************************************************)
(* SpecShape: one API submit with a payload of any shape, for student 1 or *)
(* without a student id, to an assignment of at most one question, which   *)
(* student 1 may have submitted before.                                    *)
(***************************************************************************)
ShapeQuestions ==
    {<<>>} \cup
    {<<[id |-> 1, question_type |-> t, points |-> 1, correct_answers |-> cas]>> :
        t \in QuestionTypes, cas \in {<<>>, <<<<"a">>>>}}

InitShape ==
    /\ app_settings \in {<< >>, (KeyAllowMulti :> <<"t","r","u","e">>)}
    /\ students = (1 :> [email |-> "s1", total_points |-> Val(5)])
    /\ classes = (1 :> [is_archived |-> FALSE])
    /\ assignments \in {(1 :> [class_id |-> 1, is_archived |-> FALSE, questions |-> qs]) :
                            qs \in ShapeQuestions}
    /\ submissions \in {<<>>, <<NewSubmission(1, 1, 0, 1)>>}
    /\ s_submissions = <<>>
    /\ enrollments = <<>>
    /\ response = NoResponse
    /\ reqs = <<>>

ShapeSubmit ==
    /\ response.op = "none"
    /\ \E sid \in 0..1 :
          \E payload \in Payloads(assignments[1].questions) :
              ApiSubmitRaw(1, sid, payload)

NextShape == ShapeSubmit

SpecShape == InitShape /\ [][NextShape]_vars

(***************************************************************************)
(* SpecEdit: one authoring request on a database that holds one class and  *)
(* assignment 1 with one or two stored questions of the types the scorers  *)
(* know, and possibly assignment 2 with a later question.  The request is  *)
(* a create_assignment POST, an edit_assignment POST of a posted list, or  *)
(* an edit_assignment POST of the list the GET has just rendered.          *)
(***************************************************************************)
StoredAnswers == {<<>>, <<<<"a">>>>, <<<<"a">>, <<"b">>>>}

StoredQuestion(id) ==
    {[id |-> id, question_type |-> t, points |-> p, correct_answers |-> cas] :
        t \in KnownTypes, p \in 1..2, cas \in StoredAnswers}

LaterQuestion ==
    [id |-> 3, question_type |-> "essay", points |-> 1, correct_answers |-> <<>>]

\* The question lists posted to the authoring forms.
AuthoredLists ==
    {<<Posted("multiple_choice", 1, <<<<"a">>>>, <<>>)>>,
     <<Posted(UnknownType, 1, <<<<"a">>>>, <<>>),
       Posted("essay", 1, <<>>, <<>>)>>,
     <<Posted("identification", 1, <<>>, <<"a">>),
       Posted("yes_no", 1, <<<<"a">>>>, <<>>)>>}

InitEdit ==
    /\ app_settings = << >>
    /\ students = << >>
    /\ classes = (1 :> [is_archived |-> FALSE])
    /\ \E qs \in {<<q>> : q \in StoredQuestion(1)}
                 \cup {<<q1, q2>> : q1 \in StoredQuestion(1), q2 \in StoredQuestion(2)} :
          \E rest \in {<<>>, <<[class_id |-> 1, is_archived |-> FALSE,
                                questions |-> <<LaterQuestion>>]>>} :
              assignments = <<[class_id |-> 1, is_archived |-> FALSE,
                               questions |-> qs]>> \o rest
    /\ submissions = <<>>
    /\ s_submissions = <<>>
    /\ enrollments = <<>>
    /\ response = NoResponse
    /\ reqs = <<>>

EditCreate ==
    /\ response.op = "none"
    /\ \E c \in 1..2, data \in AuthoredLists : CreateAssignment(c, data)

EditPost ==
    /\ response.op = "none"
    /\ \E aid \in 1..3, who \in Sessions, data \in AuthoredLists :
          EditAssignment(aid, who, data)

EditReload ==
    /\ response.op = "none"
    /\ \E aid \in DOMAIN assignments, who \in {"admin", "owner"} :
          EditAssignment(aid, who, edit_assignment_get(aid))

NextEdit == EditCreate \/ EditPost \/ EditReload

SpecEdit == InitEdit /\ [][NextEdit]_vars

(***************************************************************************)
(* SpecGuard: one API request (a submit or a leaderboard read) under every *)
(* combination of the access settings, on a database with one student, one *)
(* class that may be archived and one assignment that the student may have *)
(* submitted; requests also come without a student id and for assignment   *)
(* or class 2, which do not exist.                                         *)
(***************************************************************************)
MaintenanceInputs == {<<"t","r","u","e">>, <<"O","N">>, <<"f","a","l","s","e">>}

MobileApiInputs == {<<"t","r","u","e">>, <<"f","a","l","s","e">>, <<"0">>}

MessageInputs == {"Back at noon"}

\* A settings table without the key, or with the key set to one of values.
MaybeSet(key, values) == {<< >>} \cup {(key :> v) : v \in values}

GuardSettings ==
    {m @@ a @@ t : m \in MaybeSet(KeyMaintenance, MaintenanceInputs),
                   a \in MaybeSet(KeyMobileApi, MobileApiInputs),
                   t \in MaybeSet(KeyMaintenanceMessage, MessageInputs)}

InitGuard ==
    /\ app_settings \in GuardSettings
    /\ students = (1 :> [email |-> "s1", total_points |-> Val(5)])
    /\ classes \in {(1 :> [is_archived |-> b]) : b \in BOOLEAN}
    /\ assignments = (1 :> [class_id |-> 1, is_archived |-> FALSE,
                            questions |-> <<AwardQuestion(1, 3)>>])
    /\ submissions \in {<<>>, <<NewSubmission(1, 1, 3, 3)>>}
    /\ s_submissions = <<>>
    /\ enrollments = <<>>
    /\ response = NoResponse
    /\ reqs = <<>>

GuardSubmit ==
    /\ response.op = "none"
    /\ \E aid \in 1..2, sid \in 0..1 :
          \E answers \in PartialMaps({1}, {<<"a">>}) : ApiSubmit(aid, sid, answers)

GuardRead ==
    /\ response.op = "none"
    /\ \E class_id \in 1..2 : GetClassLeaderboard(class_id)

NextGuard == GuardSubmit \/ GuardRead

SpecGuard == InitGuard /\ [][NextGuard]_vars

(***************************************************************************)
(* SpecArchive: classes 1 and 2 are archived and restored while            *)
(* assignments are created in them and student 1 submits; the database     *)
(* starts with assignment 1 in class 1, and maintenance mode may be on.    *)
(***************************************************************************)
MaxArchAssignments == 2

ArchInit ==
    /\ app_settings \in MaybeSet(KeyMaintenance, {<<"t","r","u","e">>})
    /\ students = (1 :> [email |-> "s1", total_points |-> Val(0)])
    /\ classes = [k \in 1..2 |-> [is_archived |-> FALSE]]
    /\ assignments = (1 :> [class_id |-> 1, is_archived |-> FALSE,
                            questions |-> <<AwardQuestion(1, 1)>>])
    /\ submissions = <<>>
    /\ s_submissions = <<>>
    /\ enrollments = <<>>
    /\ response = NoResponse
    /\ reqs = <<>>

ArchArchive == \E c \in 1..3, who \in Sessions : ArchiveClass(c, who)

ArchRestore == \E c \in 1..3, who \in Sessions : RestoreClass(c, who)

ArchCreate ==
    /\ Cardinality(DOMAIN assignments) < MaxArchAssignments
    /\ \E c \in 1..2 :
          CreateAssignment(c, <<Posted("multiple_choice", 1, <<<<"a">>>>, <<>>)>>)

ArchSubmit ==
    \E aid \in 1..(MaxArchAssignments + 1), sid \in 0..1 :
        \E answers \in SpecAnswers(aid) : ApiSubmit(aid, sid, answers)

ArchNext == ArchArchive \/ ArchRestore \/ ArchCreate \/ ArchSubmit

SpecArchive == ArchInit /\ [][ArchNext]_vars

(***************************************************************************)
(* Enrollments: the four handlers that add or move a row of enrollments.   *)
(* A class code is a string; the class with id k carries the code of k     *)
(* letters "A" (class_code is unique per class).                           *)
(***************************************************************************)
class_code_of(k) == [i \in 1..k |-> "A"]

\* db.query(Class).filter_by(class_code=code).first(): the class id, 0 when none.
class_by_code(code) ==
    LET found == {k \in DOMAIN classes : class_code_of(k) = code}
    IN  IF found = {} THEN 0 ELSE SetMin(found)

\* db.query(Student).filter_by(email=email).first(): the student id, 0 when none.
student_by_email(email) ==
    LET found == {k \in DOMAIN students : students[k].email = email}
    IN  IF found = {} THEN 0 ELSE SetMin(found)

UpperChar(c) == IF c = "a" THEN "A" ELSE c

\* str.upper()
upper(s) == [i \in DOMAIN s |-> UpperChar(s[i])]

\* Mutant of existing_enrollment: only the student's first row is looked at.
existing_enrollment_first_row(sid, cid) ==
    LET rows == {k \in DOMAIN enrollments : enrollments[k].student_id = sid}
    IN  rows # {} /\ enrollments[SetMin(rows)].class_id = cid

\* db.query(Enrollment).filter_by(student_id=sid, class_id=cid).first()
\* finds a row.
existing_enrollment(sid, cid) ==
    \E k \in DOMAIN enrollments :
        enrollments[k].student_id = sid /\ enrollments[k].class_id = cid

\* The same query with .filter(Enrollment.id != eid).
existing_other(sid, cid, eid) ==
    \E k \in DOMAIN enrollments \ {eid} :
        enrollments[k].student_id = sid /\ enrollments[k].class_id = cid

\* POST /student/register. name_given: the name is not empty once stripped;
\* email "" is an email that is empty once stripped.
register_student_for_game(name_given, email, class_code) ==
    LET unchanged(status, detail) ==
            [students |-> students, enrollments |-> enrollments,
             response |-> Reply("register", 0, 0, status, detail)]
        cid == class_by_code(strip(class_code))
        sid == student_by_email(email)
        new == NextId(students)
    IN  IF api_guard.blocked THEN unchanged(503, api_guard.detail)
        ELSE IF ~name_given \/ email = "" \/ strip(class_code) = <<>>
        THEN unchanged(400, "Name, email, and class code are required")
        ELSE IF cid = 0 THEN unchanged(404, "Invalid class code")
        ELSE IF sid # 0
        THEN [students |-> students,
              enrollments |-> IF existing_enrollment(sid, cid) THEN enrollments
                              ELSE AddRow(enrollments,
                                          [student_id |-> sid, class_id |-> cid]),
              response |-> Reply("register", 0, sid, 200,
                                 "Student enrolled successfully")]
        ELSE [students |-> AddRow(students,
                                  [email |-> email, total_points |-> Val(0)]),
              enrollments |-> AddRow(enrollments,
                                     [student_id |-> new, class_id |-> cid]),
              response |-> Reply("register", 0, new, 200,
                                 "Student registered and enrolled successfully")]

RegisterStudentForGame(name_given, email, class_code) ==
    LET r == register_student_for_game(name_given, email, class_code)
    IN  /\ students' = r.students
        /\ enrollments' = r.enrollments
        /\ response' = r.response
        /\ UNCHANGED <<app_settings, classes, assignments, submissions,
                       s_submissions, reqs>>

\* POST /student/join-class. student_id 0 stands for a missing or falsy one.
join_class_with_code(student_id, class_code) ==
    LET unchanged(status, detail) ==
            [enrollments |-> enrollments,
             response |-> Reply("join_class", 0, student_id, status, detail)]
        code == upper(strip(class_code))
        cid == class_by_code(code)
    IN  IF api_guard.blocked THEN unchanged(503, api_guard.detail)
        ELSE IF student_id = 0 \/ code = <<>>
        THEN unchanged(400, "Student ID and class code are required")
        ELSE IF student_id \notin DOMAIN students
        THEN unchanged(404, "Student not found")
        ELSE IF cid = 0 THEN unchanged(404, "Invalid class code")
        ELSE IF classes[cid].is_archived
        THEN unchanged(400, "Class is archived and cannot be joined")
        ELSE IF existing_enrollment(student_id, cid)
        THEN unchanged(400, "Student already enrolled in this class")
        ELSE [enrollments |-> AddRow(enrollments,
                                     [student_id |-> student_id, class_id |-> cid]),
              response |-> Reply("join_class", 0, student_id, 200, "success")]

JoinClassWithCode(student_id, class_code) ==
    LET r == join_class_with_code(student_id, class_code)
    IN  /\ enrollments' = r.enrollments
        /\ response' = r.response
        /\ UNCHANGED <<app_settings, students, classes, assignments, submissions,
                       s_submissions, reqs>>

\* int(text) of a stripped form value: a single digit, or ValueError (-1).
int_of(text) ==
    CASE text = <<"1">> -> 1
      [] text = <<"2">> -> 2
      [] text = <<"3">> -> 3
      [] text = <<"4">> -> 4
      [] OTHER -> -1

\* POST /admin/enrollments/create with the form values student_id, class_id.
admin_create_enrollment(who, student_id, class_id) ==
    LET unchanged(detail) ==
            [enrollments |-> enrollments,
             response |-> Reply("admin_create_enrollment", 0, 0, 302, detail)]
        sid == int_of(strip(student_id))
        cid == int_of(strip(class_id))
    IN  IF who # "admin" THEN unchanged("admin login")
        ELSE IF strip(student_id) = <<>> \/ strip(class_id) = <<>>
        THEN unchanged("Student and class are required")
        ELSE IF sid = -1 \/ cid = -1
        THEN unchanged("Invalid student or class selection")
        ELSE IF sid \notin DOMAIN students \/ cid \notin DOMAIN classes
        THEN unchanged("Selected student or class not found")
        ELSE IF existing_enrollment(sid, cid)
        THEN unchanged("Student is already enrolled in this class")
        ELSE [enrollments |-> AddRow(enrollments,
                                     [student_id |-> sid, class_id |-> cid]),
              response |-> Reply("admin_create_enrollment", 0, sid, 302,
                                 "Student enrolled successfully")]

AdminCreateEnrollment(who, student_id, class_id) ==
    LET r == admin_create_enrollment(who, student_id, class_id)
    IN  /\ enrollments' = r.enrollments
        /\ response' = r.response
        /\ UNCHANGED <<app_settings, students, classes, assignments, submissions,
                       s_submissions, reqs>>

\* POST /admin/enrollment/{enrollment_id}/edit with the same two form values.
admin_edit_enrollment(who, enrollment_id, student_id, class_id) ==
    LET unchanged(status, detail) ==
            [enrollments |-> enrollments,
             response |-> Reply("admin_edit_enrollment", 0, 0, status, detail)]
        sid == int_of(strip(student_id))
        cid == int_of(strip(class_id))
    IN  IF who # "admin" THEN unchanged(302, "admin login")
        ELSE IF enrollment_id \notin DOMAIN enrollments
        THEN unchanged(302, "Enrollment not found")
        ELSE IF strip(student_id) = <<>> \/ strip(class_id) = <<>>
        THEN unchanged(200, "Student and class are required")
        ELSE IF sid = -1 \/ cid = -1
        THEN unchanged(200, "Invalid student or class selection")
        ELSE IF sid \notin DOMAIN students \/ cid \notin DOMAIN classes
        THEN unchanged(200, "Selected student or class not found")
        ELSE IF existing_other(sid, cid, enrollment_id)
        THEN unchanged(200, "Student is already enrolled in this class")
        ELSE [enrollments |->
                  [enrollments EXCEPT ![enrollment_id] =
                       [student_id |-> sid, class_id |-> cid]],
              response |-> Reply("admin_edit_enrollment", 0, sid, 302,
                                 "Enrollment updated successfully")]

AdminEditEnrollment(who, enrollment_id, student_id, class_id) ==
    LET r == admin_edit_enrollment(who, enrollment_id, student_id, class_id)
    IN  /\ enrollments' = r.enrollments
        /\ response' = r.response
        /\ UNCHANGED <<app_settings, students, classes, assignments, submissions,
                       s_submissions, reqs>>

(***************************************************************************)
(* SpecEnroll: the four enrollment handlers, one request at a time, on a   *)
(* database with one registered student, two classes and no enrollment.    *)
(***************************************************************************)
MaxEnrollments == 3

EnrollEmails == {"", "s1", "s2"}

EnrollCodes == {<<>>, <<"a">>, <<" ", "A">>, <<"A", "A">>, <<"A", "A", "A">>}

\* The values the admin forms post for student_id and for class_id.
StudentForms == {<<>>, <<"a">>, <<"1">>, <<" ", "2">>, <<"3">>}

ClassForms == {<<>>, <<"1">>, <<" ", "2">>, <<"3">>}

InitEnroll ==
    /\ app_settings \in MaybeSet(KeyMaintenance, {<<"t","r","u","e">>})
    /\ students = (1 :> [email |-> "s1", total_points |-> Val(0)])
    /\ classes \in {[k \in 1..2 |-> [is_archived |-> k = 2 /\ a]] : a \in BOOLEAN}
    /\ assignments = <<>>
    /\ submissions = <<>>
    /\ s_submissions = <<>>
    /\ enrollments = <<>>
    /\ response = NoResponse
    /\ reqs = <<>>

\* The table is kept to MaxEnrollments rows.
EnrollBounded == Cardinality(DOMAIN enrollments') <= MaxEnrollments

EnrollRegister ==
    \E name_given \in BOOLEAN, email \in EnrollEmails, class_code \in EnrollCodes :
        RegisterStudentForGame(name_given, email, class_code) /\ EnrollBounded

EnrollJoin ==
    \E student_id \in 0..3, class_code \in EnrollCodes :
        JoinClassWithCode(student_id, class_code) /\ EnrollBounded

EnrollAdminCreate ==
    \E who \in {"none", "admin"}, student_id \in StudentForms,
       class_id \in ClassForms :
        AdminCreateEnrollment(who, student_id, class_id) /\ EnrollBounded

EnrollAdminEdit ==
    \E who \in {"none", "admin"}, enrollment_id \in 1..(MaxEnrollments + 1),
       student_id \in StudentForms, class_id \in ClassForms :
        AdminEditEnrollment(who, enrollment_id, student_id, class_id)

NextEnroll == EnrollRegister \/ EnrollJoin \/ EnrollAdminCreate \/ EnrollAdminEdit

SpecEnroll == InitEnroll /\ [][NextEnroll]_vars

(***************************************************************************)
(* Properties of the scorers (SpecScore).                                  *)
(***************************************************************************)
ApiScored == response.op = "api_submit" /\ response.status = 200

WebScored == response.op = "take_assignment" /\ response.status = 200

StreamScored == response.op = "submit_assignment" /\ response.status = 200

\* The question list the last request was scored against.
ScoredQuestions == assignments[response.assignment_id].questions

\* What the request submitted for question i of the list ("" when missing).
Submitted(i) ==
    IF ScoredQuestions[i].id \in DOMAIN response.answers
    THEN response.answers[ScoredQuestions[i].id] ELSE <<>>

\* C5: in every scoring result of the API submit, each question's
\* points_earned is 0 or exactly the question's point value.
C5_NoPartialCredit ==
    ApiScored =>
        /\ Len(response.detailed_results) = Len(ScoredQuestions)
        /\ \A i \in DOMAIN ScoredQuestions :
              /\ response.detailed_results[i].question_id = ScoredQuestions[i].id
              /\ response.detailed_results[i].points_earned
                     \in {0, ScoredQuestions[i].points}

\* A two-point question answered right and a one-point question answered wrong.
C5_Witness ==
    /\ ApiScored
    /\ \E i, j \in DOMAIN ScoredQuestions :
          /\ ScoredQuestions[i].points = 2
          /\ response.detailed_results[i].points_earned = 2
          /\ ScoredQuestions[j].points = 1
          /\ Submitted(j) # <<>>
          /\ response.detailed_results[j].points_earned = 0

NonNegativePoints ==
    \A a \in DOMAIN assignments :
        \A i \in DOMAIN assignments[a].questions : assignments[a].questions[i].points >= 0

\* C6: with non-negative point values, every persisted submission row of the
\* API submit, the web take_assignment and the streamlined submit_assignment
\* has score <= total_points.
C6_ScoreAtMostTotal ==
    NonNegativePoints =>
        /\ \A i \in DOMAIN submissions : submissions[i].score <= submissions[i].total_points
        /\ \A i \in DOMAIN s_submissions :
              s_submissions[i].score <= s_submissions[i].total_points

\* The streamlined variant scored the same question twice, right both times.
C6_Witness ==
    /\ NonNegativePoints
    /\ StreamScored
    /\ Len(response.answers) = 2
    /\ response.answers[1].question_id = response.answers[2].question_id
    /\ \E i \in DOMAIN s_submissions :
          /\ s_submissions[i].score > total_points_of(ScoredQuestions)
          /\ s_submissions[i].score = s_submissions[i].total_points

\* C7: in the API submit a missing or empty answer earns 0 and is not correct,
\* and total_points is the sum of the point values of all questions of the
\* assignment, which is the sum of max_points over the detailed results.
C7_UnansweredCounts ==
    ApiScored =>
        /\ \A i \in DOMAIN ScoredQuestions :
              Submitted(i) = <<>> =>
                  /\ response.detailed_results[i].points_earned = 0
                  /\ response.detailed_results[i].correct = "False"
        /\ response.total_points =
               SumSeq([i \in DOMAIN ScoredQuestions |-> ScoredQuestions[i].points])
        /\ response.total_points =
               SumSeq([i \in DOMAIN response.detailed_results |->
                          response.detailed_results[i].max_points])
        /\ submissions[Len(submissions)].total_points = response.total_points

\* One question answered right, one left out, both worth points.
C7_Witness ==
    /\ ApiScored
    /\ Len(ScoredQuestions) = 2
    /\ ScoredQuestions[1].points = 2 /\ ScoredQuestions[2].points = 1
    /\ response.detailed_results[1].points_earned = 2
    /\ ScoredQuestions[2].id \notin DOMAIN response.answers
    /\ response.score = 2 /\ response.total_points = 3

\* C8 as claimed: every essay question is reported with points_earned 0 and
\* correct null, whatever was submitted (the web path reports answered
\* questions only).
C8_EssayPending ==
    /\ ApiScored =>
          \A i \in DOMAIN ScoredQuestions :
              ScoredQuestions[i].question_type = "essay" =>
                  /\ response.detailed_results[i].points_earned = 0
                  /\ response.detailed_results[i].correct = "None"
    /\ WebScored =>
          \A i \in DOMAIN ScoredQuestions :
              (ScoredQuestions[i].question_type = "essay"
                  /\ response.detailed_results[i].answered) =>
                  /\ response.detailed_results[i].points_earned = 0
                  /\ response.detailed_results[i].correct = "None"

\* C9 as claimed: an API submit that meets a question of an unknown type ends
\* in an error and persists no submission.
C9_UnknownTypeFails ==
    (response.op = "api_submit"
        /\ \E i \in DOMAIN ScoredQuestions :
               ScoredQuestions[i].question_type \notin KnownTypes) =>
        /\ response.status # 200
        /\ Matching(submissions, response.assignment_id, response.student_id) = {}

\* C10 as claimed: a multiple_choice answer is correct iff the submitted string
\* is exactly equal to a stored accepted answer.
C10_ExactMatchIff ==
    ApiScored =>
        \A i \in DOMAIN ScoredQuestions :
            (ScoredQuestions[i].question_type = "multiple_choice"
                /\ ScoredQuestions[i].id \in DOMAIN response.answers) =>
                (response.detailed_results[i].correct = "True"
                    <=> \E k \in DOMAIN ScoredQuestions[i].correct_answers :
                            ScoredQuestions[i].correct_answers[k] = Submitted(i))

\* C10 amended: a multiple_choice answer is correct iff the submitted string is
\* not empty and exactly equal (case and whitespace included) to a stored
\* accepted answer; an empty or missing answer is never correct.
C10_ExactMatchNonEmpty ==
    ApiScored =>
        \A i \in DOMAIN ScoredQuestions :
            ScoredQuestions[i].question_type = "multiple_choice" =>
                (response.detailed_results[i].correct = "True"
                    <=> /\ Submitted(i) # <<>>
                        /\ \E k \in DOMAIN ScoredQuestions[i].correct_answers :
                               ScoredQuestions[i].correct_answers[k] = Submitted(i))

\* "A" is wrong against the accepted answers "a" (other case) and "A "
\* (trailing blank).
C10_Witness ==
    /\ ApiScored
    /\ Len(ScoredQuestions) = 1
    /\ ScoredQuestions[1].question_type = "multiple_choice"
    /\ ScoredQuestions[1].correct_answers = <<<<"a">>, <<"A", " ">>>>
    /\ Submitted(1) = <<"A">>
    /\ response.detailed_results[1].correct = "False"

(***************************************************************************)
(* Properties of the API submit on the database (Spec, SpecConc).          *)
(***************************************************************************)
\* game.allow_multiple_submissions as the claims read it: set, and one of the
\* texts that mean true.
AllowMultiSet ==
    /\ KeyAllowMulti \in DOMAIN app_settings
    /\ lower(app_settings[KeyAllowMulti]) \in {<<"1">>, <<"t","r","u","e">>,
                                               <<"y","e","s">>, <<"o","n">>}

\* The step is an API submit for (a, s) that got past the guard, the student
\* id test and the assignment tests.
SubmitReaches(a, s) ==
    /\ response'.op = "api_submit"
    /\ response'.assignment_id = a
    /\ response'.student_id = s
    /\ ~api_guard.blocked
    /\ s # 0
    /\ a \in DOMAIN assignments
    /\ ~assignments[a].is_archived
    /\ ~classes[assignments[a].class_id].is_archived

Pairs == AssignmentIdInputs \X StudentIdInputs

\* C1: an API submit for a pair that already has a submission, while
\* allow_multiple_submissions is false or unset, is rejected with "Assignment
\* already submitted" and leaves every submission row and every student's
\* total_points as they were.
C1_ResubmitRejected ==
    [][\A p \in Pairs :
          (SubmitReaches(p[1], p[2])
              /\ Matching(submissions, p[1], p[2]) # {}
              /\ ~AllowMultiSet) =>
              /\ response'.status = 400
              /\ response'.detail = "Assignment already submitted"
              /\ submissions' = submissions
              /\ students' = students]_vars

\* A resubmission was rejected while the setting was stored as a false text and
\* the student had earned points.
C1_Witness ==
    /\ response.op = "api_submit"
    /\ response.detail = "Assignment already submitted"
    /\ KeyAllowMulti \in DOMAIN app_settings
    /\ ~AllowMultiSet
    /\ response.student_id \in DOMAIN students
    /\ or_zero(students[response.student_id].total_points) > 0
    /\ Len(submissions) = 2

\* C2: when allow_multiple_submissions is true, a successful API submit for a
\* pair that already has a submission leaves exactly one row for the pair, and
\* that row carries the score and total_points of the latest answers.
C2_ResubmitReplaces ==
    [][\A p \in Pairs :
          (SubmitReaches(p[1], p[2])
              /\ Matching(submissions, p[1], p[2]) # {}
              /\ AllowMultiSet) =>
              /\ response'.status = 200
              /\ Cardinality(Matching(submissions', p[1], p[2])) = 1
              /\ \A i \in Matching(submissions', p[1], p[2]) :
                    /\ i = Len(submissions')
                    /\ submissions'[i].score =
                           api_score(assignments[p[1]].questions, response'.answers)
                    /\ submissions'[i].total_points =
                           SumSeq([k \in DOMAIN assignments[p[1]].questions |->
                                      assignments[p[1]].questions[k].points])]_vars

\* The student's total holds more than the latest submission's award, so an
\* earlier submission of the pair was replaced; one row is left for the pair.
C2_Witness ==
    /\ ApiScored
    /\ AllowMultiSet
    /\ response.student_id \in DOMAIN students
    /\ response.score = 1
    /\ students[response.student_id].total_points = Val(4)
    /\ Cardinality(Matching(submissions, response.assignment_id,
                            response.student_id)) = 1
    /\ submissions[Len(submissions)].score = 1

\* C3 as claimed: while allow_multiple_submissions is false, no interleaving of
\* concurrent API submits leaves more than one row for a (student, assignment)
\* pair.
C3_AtMostOneRow ==
    ~AllowMultiSet =>
        \A a \in DOMAIN assignments, s \in DOMAIN students :
            Cardinality(Matching(submissions, a, s)) <= 1

\* round(score * multiplier) with the multiplier the settings hold now (1.0
\* when unset or not a number).
ExpectedAward(score) ==
    IF KeyMultiplier \notin DOMAIN app_settings THEN score
    ELSE LET f == float(app_settings[KeyMultiplier])
         IN  IF f.kind = "num" THEN round(score * f.num, f.den) ELSE score

\* C4: a successful API submit for an existing student sets the student's
\* total_points to the previous value (NULL counting as 0) plus
\* round(score * points_multiplier) and changes no other student; for a
\* student id that matches no student no total changes.
C4_AwardAdded ==
    [][(response'.op = "api_submit" /\ response'.status = 200) =>
          /\ DOMAIN students' = DOMAIN students
          /\ \A k \in DOMAIN students :
                IF k = response'.student_id
                THEN students'[k].total_points =
                         Val((IF students[k].total_points = NULL THEN 0
                              ELSE students[k].total_points[1])
                             + ExpectedAward(response'.score))
                ELSE students'[k] = students[k]]_vars

\* With the multiplier 1.5 a score of 3 (award 4) came on top of earlier points.
C4_Witness ==
    /\ ApiScored
    /\ KeyMultiplier \in DOMAIN app_settings
    /\ app_settings[KeyMultiplier] = <<"1", ".", "5">>
    /\ response.student_id \in DOMAIN students
    /\ response.score = 3
    /\ students[response.student_id].total_points = Val(6)

\* A submit for student id 2, which no student row has, was accepted and the
\* only student kept their points.
C4_NoStudentWitness ==
    /\ ApiScored
    /\ response.student_id \notin DOMAIN students
    /\ response.score > 0
    /\ \E k \in DOMAIN students : students[k].total_points = Val(2)

(***************************************************************************)
(* Properties of the normalising comparisons (SpecScore).                  *)
(***************************************************************************)
\* The verdict the API submit reports for question q when text is submitted.
VerdictOf(q, text) == api_score_question(q, (q.id :> text)).correct

\* text with blanks added in front, behind, or on both sides.
Pads(text) == {<<" ">> \o text, text \o <<" ">>, <<" ">> \o text \o <<" ">>}

\* The texts that differ from text in letter case at most.
Recasings(text) ==
    {t \in [DOMAIN text -> Alphabet] : \A i \in DOMAIN text : LowerChar(t[i]) = LowerChar(text[i])}

SingleAnswerTypes == {"identification", "problem_solving", "yes_no"}

\* C11 as claimed: with a single accepted answer, blanks around the submitted
\* string never change the verdict of an identification, problem_solving or
\* yes_no question, letter case never changes it for identification and
\* problem_solving, and a yes_no answer differing only in case is incorrect.
C11_PaddingAndCase ==
    ApiScored =>
        \A i \in DOMAIN ScoredQuestions :
            LET q == ScoredQuestions[i]
                verdict == response.detailed_results[i].correct
            IN  (q.question_type \in SingleAnswerTypes /\ Len(q.correct_answers) = 1) =>
                    /\ \A p \in Pads(Submitted(i)) : VerdictOf(q, p) = verdict
                    /\ q.question_type # "yes_no" =>
                           \A r \in Recasings(Submitted(i)) : VerdictOf(q, r) = verdict
                    /\ (/\ q.question_type = "yes_no"
                        /\ strip(Submitted(i)) # strip(q.correct_answers[1])
                        /\ lower(strip(Submitted(i))) = lower(strip(q.correct_answers[1]))) =>
                           verdict = "False"

\* C11 amended: the same for every submitted string that is not empty (an empty
\* or missing answer is incorrect, while blanks alone are compared).
C11_PaddingAndCaseNonEmpty ==
    ApiScored =>
        \A i \in DOMAIN ScoredQuestions :
            LET q == ScoredQuestions[i]
                verdict == response.detailed_results[i].correct
            IN  (/\ q.question_type \in SingleAnswerTypes
                 /\ Len(q.correct_answers) = 1
                 /\ Submitted(i) # <<>>) =>
                    /\ \A p \in Pads(Submitted(i)) : VerdictOf(q, p) = verdict
                    /\ q.question_type # "yes_no" =>
                           \A r \in Recasings(Submitted(i)) : VerdictOf(q, r) = verdict
                    /\ (/\ q.question_type = "yes_no"
                        /\ strip(Submitted(i)) # strip(q.correct_answers[1])
                        /\ lower(strip(Submitted(i))) = lower(strip(q.correct_answers[1]))) =>
                           verdict = "False"

\* " a" is right for an identification question whose accepted answer is "A ".
C11_Witness ==
    /\ ApiScored
    /\ Len(ScoredQuestions) = 1
    /\ ScoredQuestions[1].question_type = "identification"
    /\ ScoredQuestions[1].correct_answers = <<<<"A", " ">>>>
    /\ Submitted(1) = <<" ", "a">>
    /\ response.detailed_results[1].correct = "True"

\* The submitted parts and the accepted answers agree in number and, trimmed
\* and lower-cased, position by position.
SamePartsInOrder(text, accepted) ==
    LET parts == split(text, "|")
    IN  /\ Len(parts) = Len(accepted)
        /\ \A k \in 1..Len(parts) :
               lower(strip(parts[k])) = lower(strip(accepted[k]))

\* C12 as claimed: a fill_in_the_blanks answer is correct iff its parts, split
\* on "|", trimmed and lower-cased, are as many as the accepted answers and
\* equal them position by position.
C12_BlanksInOrder ==
    ApiScored =>
        \A i \in DOMAIN ScoredQuestions :
            ScoredQuestions[i].question_type = "fill_in_the_blanks" =>
                (response.detailed_results[i].correct = "True"
                    <=> SamePartsInOrder(Submitted(i), ScoredQuestions[i].correct_answers))

\* C12 amended: the same iff for a submitted string that is not empty; an empty
\* or missing answer is incorrect whatever the accepted answers are.
C12_BlanksInOrderNonEmpty ==
    ApiScored =>
        \A i \in DOMAIN ScoredQuestions :
            ScoredQuestions[i].question_type = "fill_in_the_blanks" =>
                (response.detailed_results[i].correct = "True"
                    <=> /\ Submitted(i) # <<>>
                        /\ SamePartsInOrder(Submitted(i),
                                            ScoredQuestions[i].correct_answers))

\* "A|a" is right for the accepted answers "a", "A ".
C12_Witness ==
    /\ ApiScored
    /\ Len(ScoredQuestions) = 1
    /\ ScoredQuestions[1].question_type = "fill_in_the_blanks"
    /\ ScoredQuestions[1].correct_answers = <<<<"a">>, <<"A", " ">>>>
    /\ Submitted(1) = <<"A", "|", "a">>
    /\ response.detailed_results[1].correct = "True"

\* The right parts in the wrong order are incorrect.
C12_PermutedWitness ==
    /\ ApiScored
    /\ Len(ScoredQuestions) = 1
    /\ ScoredQuestions[1].question_type = "fill_in_the_blanks"
    /\ ScoredQuestions[1].correct_answers = <<<<" ">>, <<"a">>>>
    /\ Submitted(1) = <<"a", "|">>
    /\ response.detailed_results[1].correct = "False"

\* C13 as claimed: an enumeration answer is taken as one literal string and is
\* correct iff, lower-cased and trimmed, it equals some accepted answer,
\* lower-cased and trimmed.
C13_EnumerationWhole ==
    ApiScored =>
        \A i \in DOMAIN ScoredQuestions :
            ScoredQuestions[i].question_type = "enumeration" =>
                (response.detailed_results[i].correct = "True"
                    <=> \E k \in DOMAIN ScoredQuestions[i].correct_answers :
                            strip(lower(ScoredQuestions[i].correct_answers[k]))
                                = strip(lower(Submitted(i))))

\* C13 amended: the same iff for a submitted string that is not empty; an empty
\* or missing answer is incorrect even when an accepted answer is blank.
C13_EnumerationWholeNonEmpty ==
    ApiScored =>
        \A i \in DOMAIN ScoredQuestions :
            ScoredQuestions[i].question_type = "enumeration" =>
                (response.detailed_results[i].correct = "True"
                    <=> /\ Submitted(i) # <<>>
                        /\ \E k \in DOMAIN ScoredQuestions[i].correct_answers :
                               strip(lower(ScoredQuestions[i].correct_answers[k]))
                                   = strip(lower(Submitted(i))))

\* " A" is right for the accepted answers blank and "a": it matches the second.
C13_Witness ==
    /\ ApiScored
    /\ Len(ScoredQuestions) = 1
    /\ ScoredQuestions[1].question_type = "enumeration"
    /\ ScoredQuestions[1].correct_answers = <<<<" ">>, <<"a">>>>
    /\ Submitted(1) = <<" ", "A">>
    /\ response.detailed_results[1].correct = "True"

\* Both accepted items joined by "|" are incorrect.
C13_JoinedWitness ==
    /\ ApiScored
    /\ Len(ScoredQuestions) = 1
    /\ ScoredQuestions[1].question_type = "enumeration"
    /\ ScoredQuestions[1].correct_answers = <<<<"a">>, <<"A", " ">>>>
    /\ Submitted(1) = <<"a", "|", "A">>
    /\ response.detailed_results[1].correct = "False"

(***************************************************************************)
(* Properties of the leaderboard (SpecBoard).                              *)
(***************************************************************************)
BoardRead == response.op = "leaderboard" /\ response.status = 200

\* Where the rows the request read name a student first.
FirstAt(sid) ==
    SetMin({k \in DOMAIN response.submissions : response.submissions[k].student_id = sid})

\* C14: the leaderboard is sorted by cumulative score, highest first, and
\* students with equal scores stand in the order in which the rows read name
\* them first.
C14_SortedTiesInOrder ==
    BoardRead =>
        \A i, j \in DOMAIN response.leaderboard :
            i < j =>
                LET a == response.leaderboard[i]
                    b == response.leaderboard[j]
                IN  /\ a.total_score >= b.total_score
                    /\ a.total_score = b.total_score =>
                           FirstAt(a.student_id) < FirstAt(b.student_id)

\* Three students listed; the first two have equal scores and the one with the
\* larger id, met first, stands first; the third has less.
C14_Witness ==
    /\ BoardRead
    /\ Len(response.leaderboard) = 3
    /\ response.leaderboard[1].total_score = response.leaderboard[2].total_score
    /\ response.leaderboard[1].student_id > response.leaderboard[2].student_id
    /\ response.leaderboard[2].total_score > response.leaderboard[3].total_score

\* C15: the ranks of a leaderboard of length k are 1, 2, ..., k in list order,
\* equal scores included.
C15_RanksArePositions ==
    BoardRead =>
        /\ \A i \in DOMAIN response.leaderboard : response.leaderboard[i].rank = i
        /\ {response.leaderboard[i].rank : i \in DOMAIN response.leaderboard}
               = 1..Len(response.leaderboard)

\* Two students with equal scores hold ranks 1 and 2.
C15_Witness ==
    /\ BoardRead
    /\ Len(response.leaderboard) = 2
    /\ response.leaderboard[1].total_score = response.leaderboard[2].total_score
    /\ response.leaderboard[1].rank = 1
    /\ response.leaderboard[2].rank = 2

\* The students that have a stored submission to an assignment of the class
\* the request named.
StudentsOfClass ==
    {submissions[i].student_id : i \in ClassRows(response.class_id)}

\* top_n for the texts stored as game.leaderboard_size.
ExpectedTopN ==
    IF KeyLeaderboardSize \notin DOMAIN app_settings THEN 10
    ELSE CASE app_settings[KeyLeaderboardSize] = <<"0">> -> 0
           [] app_settings[KeyLeaderboardSize] = <<"-", "1">> -> 0 - 1
           [] app_settings[KeyLeaderboardSize] = <<"1">> -> 1
           [] app_settings[KeyLeaderboardSize] = <<" ", "2">> -> 2
           [] OTHER -> 10

Min(a, b) == IF a < b THEN a ELSE b

Max(a, b) == IF a > b THEN a ELSE b

\* C16: a leaderboard request for an existing class succeeds and lists exactly
\* min(students with a submission in the class, max(1, top_n)) entries, top_n
\* being game.leaderboard_size, 10 when unset or not an integer.
C16_BoardLength ==
    (response.op = "leaderboard" /\ ~api_guard.blocked
        /\ response.class_id \in DOMAIN classes) =>
        /\ response.status = 200
        /\ Len(response.leaderboard)
               = Min(Cardinality(StudentsOfClass), Max(1, ExpectedTopN))

\* With game.leaderboard_size "0" and three students in the class one entry is
\* listed.
C16_Witness ==
    /\ BoardRead
    /\ KeyLeaderboardSize \in DOMAIN app_settings
    /\ app_settings[KeyLeaderboardSize] = <<"0">>
    /\ Cardinality(StudentsOfClass) = 3
    /\ Len(response.leaderboard) = 1

\* A class without submissions gets an empty leaderboard.
C16_EmptyWitness ==
    /\ BoardRead
    /\ submissions # <<>>
    /\ StudentsOfClass = {}
    /\ response.leaderboard = <<>>

\* The sum of a field over the stored rows numbered in I.
RECURSIVE SumScore(_)
SumScore(I) ==
    IF I = {} THEN 0
    ELSE LET i == CHOOSE i \in I : TRUE
         IN  submissions[i].score + SumScore(I \ {i})

RECURSIVE SumPossible(_)
SumPossible(I) ==
    IF I = {} THEN 0
    ELSE LET i == CHOOSE i \in I : TRUE
         IN  submissions[i].total_points + SumPossible(I \ {i})

RowsOf(sid) == {i \in ClassRows(response.class_id) : submissions[i].student_id = sid}

\* C17: no student is listed twice, and an entry's total_score, total_possible
\* and assignments_completed are the sum of score, the sum of total_points and
\* the number of the student's stored submissions to the class's assignments.
C17_EntriesAggregate ==
    BoardRead =>
        /\ \A i, j \in DOMAIN response.leaderboard :
              response.leaderboard[i].student_id = response.leaderboard[j].student_id
                  => i = j
        /\ \A i \in DOMAIN response.leaderboard :
              LET e == response.leaderboard[i]
              IN  /\ e.student_id \in StudentsOfClass
                  /\ e.total_score = SumScore(RowsOf(e.student_id))
                  /\ e.total_possible = SumPossible(RowsOf(e.student_id))
                  /\ e.assignments_completed = Cardinality(RowsOf(e.student_id))

\* Rows (1, 8, 10), (1, 7, 10), (2, 20, 20) with game.leaderboard_size "1":
\* only student 2 is listed, with 20 of 20, one assignment and rank 1.
C17_Witness ==
    /\ BoardRead
    /\ submissions = LargeRows
    /\ KeyLeaderboardSize \in DOMAIN app_settings
    /\ app_settings[KeyLeaderboardSize] = <<"1">>
    /\ Len(response.leaderboard) = 1
    /\ response.leaderboard[1].student_id = 2
    /\ response.leaderboard[1].total_score = 20
    /\ response.leaderboard[1].total_possible = 20
    /\ response.leaderboard[1].assignments_completed = 1
    /\ response.leaderboard[1].rank = 1

\* The same rows with the size unset: student 1 follows with 15 of 20 over two
\* assignments.
C17_BothWitness ==
    /\ BoardRead
    /\ submissions = LargeRows
    /\ app_settings = << >>
    /\ Len(response.leaderboard) = 2
    /\ response.leaderboard[2].student_id = 1
    /\ response.leaderboard[2].total_score = 15
    /\ response.leaderboard[2].total_possible = 20
    /\ response.leaderboard[2].percentage = 7500
    /\ response.leaderboard[2].assignments_completed = 2

(***************************************************************************)
(* Properties of the leaderboard on the database (Spec).                   *)
(***************************************************************************)
\* The list returned names exactly the students that have a stored submission
\* in the class (as far as the size allows), each with the sums over the rows
\* stored now.
BoardReflectsStored ==
    /\ Len(response.leaderboard)
           = Min(Cardinality(StudentsOfClass), Max(1, ExpectedTopN))
    /\ \A i \in DOMAIN response.leaderboard :
          LET e == response.leaderboard[i]
          IN  /\ e.student_id \in StudentsOfClass
              /\ e.total_score = SumScore(RowsOf(e.student_id))
              /\ e.total_possible = SumPossible(RowsOf(e.student_id))
              /\ e.assignments_completed = Cardinality(RowsOf(e.student_id))

\* C18: a leaderboard request changes no stored row (settings, students,
\* classes, assignments, submissions), and what it returns is computed from the
\* submissions stored at the time of the request, after any sequence of
\* submits, replaced submissions and assignment deletions.
C18_ReadOnlyAndCurrent ==
    [][response'.op = "leaderboard" =>
          /\ UNCHANGED <<enrollments, app_settings, students, classes, assignments, submissions,
                         s_submissions>>
          /\ response'.status = 200 => BoardReflectsStored']_vars

\* After a submission of 3 points was replaced by one of 1 point the
\* leaderboard shows 1 for the student, whose total_points are 4.
C18_Witness ==
    /\ BoardRead
    /\ AllowMultiSet
    /\ Len(response.leaderboard) = 1
    /\ response.leaderboard[1].student_id = 1
    /\ response.leaderboard[1].total_score = 1
    /\ 1 \in DOMAIN students
    /\ students[1].total_points = Val(4)

\* After the assignment was deleted the leaderboard of its class is empty,
\* while the student keeps the points earned.
C18_DeletedWitness ==
    /\ BoardRead
    /\ assignments = << >>
    /\ response.leaderboard = <<>>
    /\ 1 \in DOMAIN students
    /\ students[1].total_points = Val(3)

(***************************************************************************)
(* Properties of the percentages.                                          *)
(***************************************************************************)
\* C19: when the possible points are 0 the percentage reported is 0 and the
\* request succeeds, in the response of the API submit and in every
\* leaderboard entry.
C19_ZeroTotalZeroPercent ==
    /\ (response.op = "api_submit" /\ response.status \in {200, 500}
           /\ response.assignment_id \in DOMAIN assignments
           /\ total_points_of(assignments[response.assignment_id].questions) = 0) =>
          /\ response.status = 200
          /\ response.total_points = 0
          /\ response.percentage = 0
    /\ BoardRead =>
          \A i \in DOMAIN response.leaderboard :
              response.leaderboard[i].total_possible = 0 =>
                  response.leaderboard[i].percentage = 0

\* An assignment without questions was submitted: 0 of 0, 0 percent.
C19_Witness ==
    /\ ApiScored
    /\ ScoredQuestions = <<>>
    /\ response.total_points = 0
    /\ response.percentage = 0
    /\ submissions[Len(submissions)].total_points = 0

\* The only question, worth 0 points, was answered right: 0 of 0, 0 percent.
C19_PointlessWitness ==
    /\ ApiScored
    /\ ScoredQuestions = <<PointlessQuestion>>
    /\ response.detailed_results[1].correct = "True"
    /\ response.total_points = 0
    /\ response.percentage = 0

\* A student listed with 0 possible points has 0 percent.
C19_BoardWitness ==
    /\ BoardRead
    /\ \E i \in DOMAIN response.leaderboard :
          /\ response.leaderboard[i].total_possible = 0
          /\ response.leaderboard[i].assignments_completed = 1
          /\ response.leaderboard[i].percentage = 0

(***************************************************************************)
(* Properties of the points award (SpecScore: the multiplier is unset, so  *)
(* it is the default 1.0).                                                 *)
(***************************************************************************)
\* The multiplier the award uses is a number that is not negative.
MultiplierNonNegative ==
    \/ KeyMultiplier \notin DOMAIN app_settings
    \/ LET f == float(app_settings[KeyMultiplier])
       IN  f.kind = "error" \/ (f.kind = "num" /\ f.num >= 0)

\* C20: a successful API submit awards round(score * multiplier) points; the
\* award is not negative when the score and the multiplier are not negative;
\* and while the multiplier is not negative no submit lowers a student's
\* total_points.
C20_TotalNeverDecreases ==
    [][(response'.op = "api_submit" /\ response'.status = 200
           /\ response'.student_id \in DOMAIN students) =>
          LET k     == response'.student_id
              added == or_zero(students'[k].total_points)
                           - or_zero(students[k].total_points)
          IN  /\ added = ExpectedAward(response'.score)
              /\ (response'.score >= 0 /\ MultiplierNonNegative) => added >= 0
              /\ MultiplierNonNegative =>
                     \A j \in DOMAIN students :
                         or_zero(students'[j].total_points)
                             >= or_zero(students[j].total_points)]_vars

\* The part of C20 that is about scores that are not negative: the award is
\* round(score * multiplier) and is not negative.
C20_AwardOfNonNegativeScore ==
    [][(response'.op = "api_submit" /\ response'.status = 200
           /\ response'.student_id \in DOMAIN students
           /\ response'.score >= 0 /\ MultiplierNonNegative) =>
          LET k     == response'.student_id
              added == or_zero(students'[k].total_points)
                           - or_zero(students[k].total_points)
          IN  added = ExpectedAward(response'.score) /\ added >= 0]_vars

(***************************************************************************)
(* Properties of the rounding of the award (SpecAward).                    *)
(***************************************************************************)
\* An accepted API submit of student 1 with the given score, under the given
\* multiplier text.
AwardStep(score, text) ==
    /\ response'.op = "api_submit" /\ response'.status = 200
    /\ response'.student_id \in DOMAIN students
    /\ response'.score = score
    /\ KeyMultiplier \in DOMAIN app_settings
    /\ app_settings[KeyMultiplier] = text

AddedTo(k) == or_zero(students'[k].total_points) - or_zero(students[k].total_points)

\* C21 as claimed: with a score of 7 and the multiplier 1.5 the points added
\* to the student's total are 11.
C21_SevenGivesEleven ==
    [][AwardStep(7, <<"1", ".", "5">>) => AddedTo(response'.student_id) = 11]_vars

\* C21 amended: with a score of 7 and the multiplier 1.5 the points added to
\* the student's total are 10 (the half-way product 10.5 goes to the even
\* neighbour).
C21_SevenGivesTen ==
    [][AwardStep(7, <<"1", ".", "5">>) => AddedTo(response'.student_id) = 10]_vars

\* A score of 7 under the multiplier 1.5 took the student from 5 to 15 points.
C21_Witness ==
    /\ ApiScored
    /\ response.score = 7
    /\ KeyMultiplier \in DOMAIN app_settings
    /\ app_settings[KeyMultiplier] = <<"1", ".", "5">>
    /\ students[1].total_points = Val(15)

(***************************************************************************)
(* Properties of the API submit on malformed input (SpecShape).            *)
(***************************************************************************)
\* The step is an API submit and ends in an error that changed nothing.
RejectedUnchanged ==
    /\ response'.op = "api_submit"
    /\ response'.status >= 400
    /\ submissions' = submissions
    /\ students' = students

\* C22 as claimed: an API submit without a student id, or whose answers are
\* not a map from question id to string, ends in an error and leaves the
\* submissions and every student's total_points as they were.
C22_InvalidShapeRejected ==
    [][\A sid \in 0..1 : \A payload \in Payloads(assignments[1].questions) :
          (ApiSubmitRaw(1, sid, payload) /\ (sid = 0 \/ InvalidShape(payload)))
              => RejectedUnchanged]_vars

\* The part of C22 that holds: a submit without a student id, with a JSON
\* array as answers to an assignment that has questions, or with a number as
\* the answer to a question whose comparison calls a string method, ends in
\* an error and changes nothing (the replaced submission is restored by the
\* rollback).
C22_RaisingShapesRollBack ==
    [][\A sid \in 0..1 : \A payload \in Payloads(assignments[1].questions) :
          (/\ ApiSubmitRaw(1, sid, payload)
           /\ \/ sid = 0
              \/ payload.shape = "list" /\ assignments[1].questions # <<>>
              \/ \E i \in DOMAIN assignments[1].questions :
                    /\ assignments[1].questions[i].id \in payload.numbers
                    /\ number_raises(assignments[1].questions[i]))
              => RejectedUnchanged]_vars

\* A malformed submit failed with 500 while a replaceable submission existed.
C22_RollbackWitness ==
    /\ response.op = "api_submit" /\ response.status = 500
    /\ AllowMultiSet
    /\ Len(submissions) = 1

(***************************************************************************)
(* Properties of the authoring forms (SpecEdit).                           *)
(***************************************************************************)
\* The posted list has a question whose type tag the form does not support.
HasUnsupported(data, types) == \E i \in DOMAIN data : data[i].type \notin types

\* C23 as claimed: a create_assignment or edit_assignment POST whose question
\* list has a question with an unknown or unsupported type tag fails: no
\* assignment is stored or changed.
C23_UnknownTypeRejected ==
    [][\A data \in AuthoredLists :
          /\ (HasUnsupported(data, CreateTypes) /\ \E c \in 1..2 : CreateAssignment(c, data))
                 => assignments' = assignments
          /\ (HasUnsupported(data, EditTypes)
                 /\ \E aid \in 1..3, who \in Sessions : EditAssignment(aid, who, data))
                 => assignments' = assignments]_vars

\* The same number of questions with the same types, point values and
\* accepted answers.
SameQuestions(before, after) ==
    /\ Len(after) = Len(before)
    /\ \A i \in DOMAIN before :
          /\ after[i].question_type = before[i].question_type
          /\ after[i].points = before[i].points
          /\ after[i].correct_answers = before[i].correct_answers

\* C30 as claimed: saving back the question list that the edit form loaded
\* preserves the assignment's questions, for every type scoring supports.
C30_EditRoundTrip ==
    [][\A aid \in DOMAIN assignments, who \in {"admin", "owner"} :
          EditAssignment(aid, who, edit_assignment_get(aid)) =>
              SameQuestions(assignments[aid].questions, assignments'[aid].questions)]_vars

(***************************************************************************)
(* Properties of the access guard (SpecGuard).                             *)
(***************************************************************************)
\* access.maintenance_mode is stored as one of the texts that read as true.
MaintenanceOn ==
    /\ KeyMaintenance \in DOMAIN app_settings
    /\ app_settings[KeyMaintenance] \in {<<"t","r","u","e">>, <<"O","N">>}

\* access.enable_mobile_api is stored as a text that does not read as true.
MobileApiOff ==
    /\ KeyMobileApi \in DOMAIN app_settings
    /\ app_settings[KeyMobileApi] \in {<<"f","a","l","s","e">>, <<"0">>}

\* The message of the maintenance 503: the stored one, or the default.
MaintenanceMessage ==
    IF KeyMaintenanceMessage \in DOMAIN app_settings
    THEN app_settings[KeyMaintenanceMessage]
    ELSE "We'll be back shortly."

\* The step answered 503 with the message and changed no row.
Refused(message) ==
    /\ response'.status = 503
    /\ response'.detail = message
    /\ submissions' = submissions
    /\ students' = students

\* C24: while maintenance mode is on, every API submit and every leaderboard
\* request is answered 503 with the maintenance message, whatever the mobile
\* API switch says; while only the mobile API is off they are answered 503
\* "Mobile API is disabled by admin"; in both cases whatever else is wrong
\* with the request, and no submission is stored and no points are awarded.
C24_GuardFirst ==
    [][response'.op \in {"api_submit", "leaderboard"} =>
          /\ MaintenanceOn => Refused(MaintenanceMessage)
          /\ (~MaintenanceOn /\ MobileApiOff) =>
                 Refused("Mobile API is disabled by admin")]_vars

\* A submit without a student id was refused for maintenance although the
\* mobile API is off too and a custom message is stored.
C24_Witness ==
    /\ response.op = "api_submit"
    /\ response.student_id = 0
    /\ response.status = 503
    /\ response.detail = "Back at noon"
    /\ MaintenanceOn /\ MobileApiOff

\* A leaderboard request for a class that does not exist was refused because
\* the mobile API is off.
C24_MobileWitness ==
    /\ response.op = "leaderboard"
    /\ response.class_id = 2
    /\ response.status = 503
    /\ response.detail = "Mobile API is disabled by admin"
    /\ ~MaintenanceOn

(***************************************************************************)
(* Properties of archiving (SpecArchive).  A class is between a successful *)
(* archive_class and the next successful restore_class exactly while its   *)
(* is_archived is TRUE: no other handler writes the column.                *)
(***************************************************************************)
\* The step is an API submit to an assignment of a class that is archived.
SubmitToArchived(aid, sid) ==
    /\ response'.op = "api_submit"
    /\ aid \in DOMAIN assignments
    /\ classes[assignments[aid].class_id].is_archived
    /\ \E answers \in SpecAnswers(aid) : ApiSubmit(aid, sid, answers)

\* An archive (flag TRUE) or restore (flag FALSE) of class c that succeeded
\* leaves the class and all its assignments with the flag.
FlagsSetBy(flag) ==
    \A c \in DOMAIN classes, who \in {"admin", "owner"} :
        (/\ response'.op = (IF flag THEN "archive_class" ELSE "restore_class")
         /\ IF flag THEN ArchiveClass(c, who) ELSE RestoreClass(c, who)) =>
            /\ classes'[c].is_archived = flag
            /\ \A k \in DOMAIN assignments' :
                  assignments'[k].class_id = c => assignments'[k].is_archived = flag

C25_CreatedWitness ==
    /\ response.op = "api_submit"
    /\ response.status = 403
    /\ ~assignments[response.assignment_id].is_archived

\* After a restore a submit to an assignment created while the class was
\* archived was accepted.
C25_RestoredWitness ==
    /\ ApiScored
    /\ response.assignment_id = 2
    /\ response.score = 1
    /\ ~classes[assignments[2].class_id].is_archived

(***************************************************************************)
(* Properties of concurrent awards (SpecConc: the multiplier is unset, so  *)
(* the award of a submit is its score, and the student starts with 0).     *)
(***************************************************************************)
\* Two requests of student 1 for different assignments have both committed.
BothCommitted ==
    /\ Len(reqs) = 2
    /\ reqs[1].pc = "done" /\ reqs[2].pc = "done"
    /\ reqs[1].student_id = 1 /\ reqs[2].student_id = 1
    /\ reqs[1].assignment_id # reqs[2].assignment_id
    /\ Len(submissions) = 2

\* C26 as claimed: when two API submits of one student for two different
\* assignments have run concurrently and both succeeded, the student's
\* total_points is the initial total plus both awards.
C26_NoAwardLost ==
    BothCommitted =>
        students[1].total_points = Val(submissions[1].score + submissions[2].score)

(***************************************************************************)
(* Properties of the running total (Spec: requests one at a time).         *)
(***************************************************************************)
\* C27: a student's total_points changes only by an accepted API submit of
\* that student, which adds the award of that submit, also when the submit
\* replaces an earlier submission: the award of the discarded submission is
\* not taken back.  So the total is the initial value plus the awards of all
\* accepted submits, and can exceed the awards of the rows that are stored.
C27_AwardsAccumulate ==
    [][\A k \in DOMAIN students :
          /\ k \in DOMAIN students'
          /\ or_zero(students'[k].total_points) - or_zero(students[k].total_points) =
                 IF response'.op = "api_submit" /\ response'.status = 200
                        /\ response'.student_id = k
                 THEN ExpectedAward(response'.score)
                 ELSE 0]_vars

\* With the multiplier never set, a submission scoring 3 was replaced by one
\* scoring 1: the only stored row is worth 1 point and the student has 4.
C27_Witness ==
    /\ ApiScored
    /\ AllowMultiSet
    /\ KeyMultiplier \notin DOMAIN app_settings
    /\ Len(submissions) = 1
    /\ submissions[1].score = 1
    /\ submissions[1].student_id = 1
    /\ 1 \in DOMAIN students
    /\ students[1].total_points = Val(4)

(***************************************************************************)
(* Properties relating the two scoring paths (SpecScore).                  *)
(***************************************************************************)
\* The submission row the request has just stored.
StoredRow == submissions[Len(submissions)]

\* C28 as claimed: for the same assignment and the same submitted answers the
\* web take_assignment path and the API submit path store a submission with
\* the same score and the same total_points.
C28_PathsAgree ==
    /\ WebScored =>
          /\ StoredRow.score = api_score(ScoredQuestions, response.answers)
          /\ StoredRow.total_points = total_points_of(ScoredQuestions)
    /\ ApiScored =>
          /\ StoredRow.score = web_score(ScoredQuestions, response.answers)
          /\ StoredRow.total_points = total_points_of(ScoredQuestions)

\* The part of C28 that holds: the two paths store the same total_points,
\* and the same score when no submitted answer consists of blanks only and
\* no answer to a multiple_choice question starts or ends with a blank.
C28_PathsAgreeUnpadded ==
    (WebScored \/ ApiScored) =>
        /\ StoredRow.total_points = total_points_of(ScoredQuestions)
        /\ (\A i \in DOMAIN ScoredQuestions :
               ScoredQuestions[i].id \in DOMAIN response.answers =>
                  LET answer == response.answers[ScoredQuestions[i].id]
                  IN  /\ strip(answer) = <<>> => answer = <<>>
                      /\ ScoredQuestions[i].question_type = "multiple_choice"
                             => strip(answer) = answer) =>
              /\ StoredRow.score = api_score(ScoredQuestions, response.answers)
              /\ StoredRow.score = web_score(ScoredQuestions, response.answers)

(***************************************************************************)
(* Properties of the enrollments (SpecEnroll).                             *)
(***************************************************************************)
\* The rows of enrollments that hold the pair (student, class).
EnrollmentsOf(table, sid, cid) ==
    {k \in DOMAIN table : table[k].student_id = sid /\ table[k].class_id = cid}

OneRowPerPair(table) ==
    \A i, j \in DOMAIN table :
        (table[i].student_id = table[j].student_id
            /\ table[i].class_id = table[j].class_id) => i = j

\* The request of this step was one of the four enrollment requests.
EnrollStep ==
    response'.op \in {"register", "join_class", "admin_create_enrollment",
                      "admin_edit_enrollment"}

\* C29: whatever sequence of register_student_for_game,
\* join_class_with_code, admin_create_enrollment and admin_edit_enrollment
\* requests is executed one at a time, enrollments holds at most one row per
\* (student, class) pair, and a request never adds a row for a pair that is
\* enrolled already: it adds no row at all.
C29_OneEnrollmentPerPair ==
    [][EnrollStep =>
          /\ OneRowPerPair(enrollments')
          /\ \A k \in DOMAIN enrollments' \ DOMAIN enrollments :
                 EnrollmentsOf(enrollments, enrollments'[k].student_id,
                        enrollments'[k].class_id) = {}
          /\ DOMAIN enrollments \subseteq DOMAIN enrollments'
          /\ Cardinality(DOMAIN enrollments') <= Cardinality(DOMAIN enrollments) + 1
      ]_vars

\* C29 happens: student 1 is enrolled in both classes, a second student in
\* one, and the last request asked for an enrollment that existed already.
C29_Witness ==
    /\ Cardinality(DOMAIN enrollments) >= 3
    /\ EnrollmentsOf(enrollments, 1, 1) # {}
    /\ EnrollmentsOf(enrollments, 1, 2) # {}
    /\ response.detail \in {"Student already enrolled in this class",
                            "Student is already enrolled in this class"}

\* C29 happens for register_student_for_game as well: it answered
\* "enrolled" for a student who was in the class already, and added no row.
C29_RegisterWitness ==
    /\ response.op = "register"
    /\ response.detail = "Student enrolled successfully"
    /\ Cardinality(EnrollmentsOf(enrollments, response.student_id, 1)) = 1
    /\ Cardinality(DOMAIN enrollments) = 1

====
